---- MODULE Spec2Model ----
(***************************************************************************)
(* A model of the tiny-lang interpreter of src/tli.py: the quote-aware     *)
(* splitters, the name validator, the expression and statement parsers,    *)
(* the program loader and the resumable run loop of TinyLangInterpreter.   *)
(*                                                                         *)
(* Text is a sequence of one-character strings.  Positions inside the      *)
(* string operators are 0-based, as in Python, and -1 means "not found".   *)
(***************************************************************************)
EXTENDS Integers, Sequences, FiniteSets, TLC

(***************************************************************************)
(* Python string primitives                                                *)
(***************************************************************************)

\* s[a:b] for 0 <= a, b <= len(s)
Slice(s, a, b) == SubSeq(s, a + 1, b)

\* s[a:]
SliceFrom(s, a) == SubSeq(s, a + 1, Len(s))

\* the least element of a set of integers, or none when the set is empty
MinOr(S, none) == IF S = {} THEN none ELSE CHOOSE i \in S : \A j \in S : i <= j

\* str.find(sub, start): the lowest index >= start where sub occurs, else -1
Find(s, sub, start) ==
    MinOr({i \in start .. (Len(s) - Len(sub)) : Slice(s, i, i + Len(sub)) = sub}, -1)

\* the characters str.strip() removes, of those that occur in the texts of
\* this module
Whitespace == {" ", "\t", "\n", "\f"}

\* number of leading characters of s that belong to cs
RECURSIVE LeadCount(_, _)
LeadCount(s, cs) ==
    IF s # <<>> /\ Head(s) \in cs THEN 1 + LeadCount(Tail(s), cs) ELSE 0

\* number of trailing characters of s that belong to cs
RECURSIVE TrailCount(_, _)
TrailCount(s, cs) ==
    IF s # <<>> /\ s[Len(s)] \in cs
    THEN 1 + TrailCount(SubSeq(s, 1, Len(s) - 1), cs) ELSE 0

\* s without its first a and its last b characters, empty when a covers s
Trimmed(s, a, b) == IF a = Len(s) THEN <<>> ELSE Slice(s, a, Len(s) - b)

\* str.strip(chars)
StripChars(s, cs) == Trimmed(s, LeadCount(s, cs), TrailCount(s, cs))

\* str.strip()
Strip(s) == StripChars(s, Whitespace)

RECURSIVE Split(_, _)

\* str.split(sep), the first occurrence of sep being at p
SplitAt(s, sep, p) ==
    IF p = -1 THEN <<s>>
    ELSE <<Slice(s, 0, p)>> \o Split(SliceFrom(s, p + Len(sep)), sep)

\* str.split(sep) for a non-empty sep: always at least one segment
Split(s, sep) == SplitAt(s, sep, Find(s, sep, 0))

\* the line boundaries of str.splitlines() that occur in the texts of this
\* module: line feed and form feed
LineBoundaries == {"\n", "\f"}

RECURSIVE BoundaryAt(_, _)

\* the index of the first line boundary of s from index p on, -1 if none
BoundaryAt(s, p) ==
    IF p >= Len(s) THEN -1
    ELSE IF s[p + 1] \in LineBoundaries THEN p
    ELSE BoundaryAt(s, p + 1)

\* str.splitlines(): no empty last line after a trailing boundary, no line
\* at all for the empty text
RECURSIVE SplitLines(_)
SplitLines(s) ==
    IF s = <<>> THEN <<>>
    ELSE IF BoundaryAt(s, 0) = -1 THEN <<s>>
    ELSE <<Slice(s, 0, BoundaryAt(s, 0))>>
             \o SplitLines(SliceFrom(s, BoundaryAt(s, 0) + 1))

(***************************************************************************)
(* utils: quoted_split_first, quoted_split, check_name_legal               *)
(***************************************************************************)

RECURSIVE LegalSepPos(_, _, _, _)

\* lines 767-771 of quoted_split_first: past the closing quote, if there is one
AfterClosingQuote(string, sep, quote, closing_quote_pos) ==
    IF closing_quote_pos = -1 THEN -1
    ELSE LegalSepPos(string, sep, quote, closing_quote_pos + 1)

\* a quoted_split_first that takes the first separator, quoted or not
SepPassUnquoted(string, sep, quote, quote_pos, sep_pos) == sep_pos

\* lines 755-771 of quoted_split_first: one pass of the loop, the next quote
\* and the next separator being found
SepPass(string, sep, quote, quote_pos, sep_pos) ==
    IF sep_pos = -1 THEN -1
    ELSE IF quote_pos = -1 THEN sep_pos
    ELSE IF sep_pos < quote_pos THEN sep_pos
    ELSE AfterClosingQuote(string, sep, quote, Find(string, quote, quote_pos + 1))

\* the while loop of quoted_split_first: the position of the first separator
\* outside the quotes, searching from cursor, or -1
LegalSepPos(string, sep, quote, cursor) ==
    SepPass(string, sep, quote, Find(string, quote, cursor), Find(string, sep, cursor))

\* lines 773-778 of quoted_split_first; found = FALSE stands for the
\* (None, string) result
SplitFirstAt(string, sep, sep_pos) ==
    IF sep_pos # -1
    THEN [found |-> TRUE,
          head  |-> Slice(string, 0, sep_pos),
          tail  |-> SliceFrom(string, sep_pos + Len(sep))]
    ELSE [found |-> FALSE, head |-> <<>>, tail |-> string]

\* quoted_split_first
quoted_split_first(string, sep, quote) ==
    SplitFirstAt(string, sep, LegalSepPos(string, sep, quote, 0))

\* segments with its last element followed by more
AppendToLast(segments, more) ==
    [segments EXCEPT ![Len(segments)] = @ \o more]

\* a quoted_split that cuts at the closing quote as well
ExtendSegmentsCut(segments, quote, sep_segments) ==
    AppendToLast(segments, quote) \o sep_segments

\* lines 814-820 of quoted_split: a quote_segment outside the quotes
ExtendSegments(segments, quote, sep_segments) ==
    AppendToLast(segments, quote \o Head(sep_segments)) \o Tail(sep_segments)

\* the for loop of quoted_split over quote_segments[1:], i counting from 0
RECURSIVE QuotedSplitLoop(_, _, _, _, _)
QuotedSplitLoop(rest, i, segments, sep, quote) ==
    IF rest = <<>> THEN segments
    ELSE IF i % 2 = 0
    THEN QuotedSplitLoop(Tail(rest), i + 1,
             AppendToLast(segments, quote \o Head(rest)), sep, quote)
    ELSE QuotedSplitLoop(Tail(rest), i + 1,
             ExtendSegments(segments, quote, Split(Head(rest), sep)), sep, quote)

\* the value of quoted after a loop of n iterations: that of the last one
LastQuoted(n) == IF n = 0 THEN FALSE ELSE ((n - 1) % 2 = 0)

\* lines 802-823 of quoted_split, the string being split by the quote
QuotedSplitOf(quote_segments, sep, quote) ==
    [segments |-> QuotedSplitLoop(Tail(quote_segments), 0,
                      Split(quote_segments[1], sep), sep, quote),
     closed   |-> ~LastQuoted(Len(quote_segments) - 1)]

\* quoted_split: the segments and the closed flag
quoted_split(string, sep, quote) == QuotedSplitOf(Split(string, quote), sep, quote)

Digits == {"0", "1", "2", "3", "4", "5", "6", "7", "8", "9"}

\* the grave accent, which cannot be written inside a TLA+ string
Backtick == "grave"

Punctuations ==
    {",", ".", ":", ";", "'", "\"", "!", "@", "#", "$", "%", "^", "&", "?",
     "|", "\\", "~", Backtick}

OperatorChars == {"+", "-", "*", "/", "<", "=", ">"}

Chars(s) == {s[i] : i \in 1 .. Len(s)}

\* lines 847-863 of check_name_legal, the name being stripped
LegalName(name) ==
    /\ Len(name) # 0
    /\ name[1] \notin Digits
    /\ Chars(name) \cap {" ", "\t"} = {}
    /\ Chars(name) \cap Punctuations = {}
    /\ Chars(name) \cap OperatorChars = {}

\* check_name_legal: ok = FALSE stands for the TinyLangSyntaxError
check_name_legal(name) == [ok |-> LegalName(Strip(name)), name |-> Strip(name)]

(***************************************************************************)
(* Values: Number (a Python float) and Text (a Python str).                *)
(* A finite Number is kept as an exact fraction n/d in lowest terms; the   *)
(* floats inf, -inf and nan are kept apart.  Rounding of doubles is not    *)
(* modelled.                                                               *)
(***************************************************************************)

Abs(i) == IF i < 0 THEN -i ELSE i

RECURSIVE Gcd(_, _)
Gcd(a, b) == IF b = 0 THEN a ELSE Gcd(b, a % b)

RECURSIVE Pow10(_)
Pow10(k) == IF k <= 0 THEN 1 ELSE 10 * Pow10(k - 1)

\* the Number n/d for d > 0, g being the greatest common divisor of n and d
Reduced(n, d, g) == [t |-> "num", n |-> n \div g, d |-> d \div g, s |-> <<>>]

\* the finite Number n/d, d # 0, in lowest terms with a positive denominator
Num(n, d) ==
    IF d < 0 THEN Reduced(-n, -d, Gcd(Abs(n), Abs(d)))
    ELSE Reduced(n, d, Gcd(Abs(n), Abs(d)))

Int2Num(i) == Num(i, 1)

\* float('inf') with sign sg in {1, -1}
Inf(sg) == [t |-> "inf", n |-> sg, d |-> 0, s |-> <<>>]

NaN == [t |-> "nan", n |-> 0, d |-> 0, s |-> <<>>]

Text(chars) == [t |-> "text", n |-> 0, d |-> 1, s |-> chars]

IsNumber(v) == v.t \in {"num", "inf", "nan"}

IsZero(v) == v.t = "num" /\ v.n = 0

Sign(i) == IF i < 0 THEN -1 ELSE IF i = 0 THEN 0 ELSE 1

\* result of an operator function: err = "none" or the Python exception raised
Ok(v) == [err |-> "none", v |-> v, name |-> <<>>]

Raise(kind) == [err |-> kind, v |-> NaN, name |-> <<>>]

\* float(True) / float(False)
Bool2Num(b) == IF b THEN Int2Num(1) ELSE Int2Num(0)

\* x + y on two floats
NumAdd(x, y) ==
    IF x.t = "nan" \/ y.t = "nan" THEN NaN
    ELSE IF x.t = "inf" /\ y.t = "inf" THEN (IF x.n = y.n THEN x ELSE NaN)
    ELSE IF x.t = "inf" THEN x
    ELSE IF y.t = "inf" THEN y
    ELSE Num(x.n * y.d + y.n * x.d, x.d * y.d)

\* -x on a float
NumNeg(x) ==
    IF x.t = "nan" THEN NaN
    ELSE IF x.t = "inf" THEN Inf(-x.n)
    ELSE Num(-x.n, x.d)

\* x * y on two floats
NumMul(x, y) ==
    IF x.t = "nan" \/ y.t = "nan" THEN NaN
    ELSE IF x.t = "inf" \/ y.t = "inf"
         THEN (IF IsZero(x) \/ IsZero(y) THEN NaN ELSE Inf(Sign(x.n) * Sign(y.n)))
    ELSE Num(x.n * y.n, x.d * y.d)

\* x / y on two floats, y # 0
NumDiv(x, y) ==
    IF x.t = "nan" \/ y.t = "nan" THEN NaN
    ELSE IF x.t = "inf" THEN (IF y.t = "inf" THEN NaN ELSE Inf(x.n * Sign(y.n)))
    ELSE IF y.t = "inf" THEN Int2Num(0)
    ELSE Num(x.n * y.d, x.d * y.n)

\* x < y on two floats
NumLess(x, y) ==
    IF x.t = "nan" \/ y.t = "nan" THEN FALSE
    ELSE IF x.t = "inf" THEN (x.n = -1 /\ ~(y.t = "inf" /\ y.n = -1))
    ELSE IF y.t = "inf" THEN y.n = 1
    ELSE x.n * y.d < y.n * x.d

\* x == y on two floats
NumEq(x, y) == x.t # "nan" /\ y.t # "nan" /\ x = y

\* the characters of the model in code point order, for comparing Texts
CodePoints ==
    <<"\t", " ", "!", "\"", "#", "$", "%", "&", "'", "*", "+", ",", "-", ".", "/",
      "0", "1", "2", "3", "4", "5", "6", "7", "8", "9", ":", ";", "<", "=", ">",
      "?", "@", "\\", "^", "_", Backtick,
      "a", "b", "c", "d", "e", "f", "g", "h", "i", "j", "k", "l", "m", "n", "o",
      "p", "q", "r", "s", "t", "u", "v", "w", "x", "y", "z", "|", "~">>

Ord(c) == CHOOSE i \in 1 .. Len(CodePoints) : CodePoints[i] = c

\* a < b on two strs: lexicographic by code point
RECURSIVE StrLess(_, _)
StrLess(a, b) ==
    IF b = <<>> THEN FALSE
    ELSE IF a = <<>> THEN TRUE
    ELSE IF Head(a) = Head(b) THEN StrLess(Tail(a), Tail(b))
    ELSE Ord(Head(a)) < Ord(Head(b))

ValLess(x, y) == IF x.t = "text" THEN StrLess(x.s, y.s) ELSE NumLess(x, y)

ValEq(x, y) ==
    IF x.t = "text" \/ y.t = "text" THEN x = y ELSE NumEq(x, y)

BothNum(x, y) == IsNumber(x) /\ IsNumber(y)

BothText(x, y) == x.t = "text" /\ y.t = "text"

\* the operand pairs Python orders: two floats or two strs
SameKind(x, y) == BothNum(x, y) \/ BothText(x, y)

\* float(b) for a comparison of two values Python orders, else the TypeError
Compared(x, y, b) == IF SameKind(x, y) THEN Ok(Bool2Num(b)) ELSE Raise("TypeError")

\* the lambdas of OperatorExpression.Operator applied to two values
ApplyOperator(op, x, y) ==
    CASE op = "+" ->
            IF BothNum(x, y) THEN Ok(NumAdd(x, y))
            ELSE IF BothText(x, y) THEN Ok(Text(x.s \o y.s))
            ELSE Raise("TypeError")
      [] op = "-" ->
            IF BothNum(x, y) THEN Ok(NumAdd(x, NumNeg(y))) ELSE Raise("TypeError")
      [] op = "*" ->
            IF BothNum(x, y) THEN Ok(NumMul(x, y)) ELSE Raise("TypeError")
      [] op = "/" ->
            IF ~BothNum(x, y) THEN Raise("TypeError")
            ELSE IF IsZero(y) THEN Raise("ZeroDivisionError")
            ELSE Ok(NumDiv(x, y))
      [] op = "<" -> Compared(x, y, ValLess(x, y))
      [] op = "<=" -> Compared(x, y, ValLess(x, y) \/ ValEq(x, y))
      [] op = ">" -> Compared(x, y, ValLess(y, x))
      [] op = ">=" -> Compared(x, y, ValLess(y, x) \/ ValEq(x, y))
      [] op = "==" -> Ok(Bool2Num(ValEq(x, y)))
      [] op = "!=" -> Ok(Bool2Num(~ValEq(x, y)))

(***************************************************************************)
(* float(string): the texts Python accepts as a float, and their value.    *)
(* The model's alphabet has no upper-case letters.                         *)
(***************************************************************************)

DigitSeq == <<"0", "1", "2", "3", "4", "5", "6", "7", "8", "9">>

DigitVal(c) == (CHOOSE i \in 1 .. 10 : DigitSeq[i] = c) - 1

\* a digit part: digits, with single underscores allowed between digits
IsDigitPart(s) ==
    /\ s # <<>>
    /\ Chars(s) \subseteq Digits \cup {"_"}
    /\ s[1] \in Digits
    /\ s[Len(s)] \in Digits
    /\ \A i \in 1 .. Len(s) - 1 : ~(s[i] = "_" /\ s[i + 1] = "_")

RECURSIVE DigitsValue(_, _)
DigitsValue(s, acc) ==
    IF s = <<>> THEN acc
    ELSE IF Head(s) = "_" THEN DigitsValue(Tail(s), acc)
    ELSE DigitsValue(Tail(s), 10 * acc + DigitVal(Head(s)))

IsDigit(c) == c \in Digits

\* number of digits of a digit part
DigitCount(s) == Len(SelectSeq(s, IsDigit))

\* the value of the mantissa with integer part ip and fraction part fp
MantissaOf(ip, fp) ==
    IF /\ ip = <<>> \/ IsDigitPart(ip)
       /\ fp = <<>> \/ IsDigitPart(fp)
       /\ ip # <<>> \/ fp # <<>>
    THEN [ok |-> TRUE,
          n  |-> DigitsValue(ip, 0) * Pow10(DigitCount(fp)) + DigitsValue(fp, 0),
          d  |-> Pow10(DigitCount(fp))]
    ELSE [ok |-> FALSE, n |-> 0, d |-> 1]

\* the mantissa m, its decimal point being at p
MantissaAt(m, p) ==
    IF p = -1 THEN MantissaOf(m, <<>>)
    ELSE MantissaOf(Slice(m, 0, p), SliceFrom(m, p + 1))

\* the mantissa "int[.frac]" or ".frac"
ParseMantissa(m) == MantissaAt(m, Find(m, <<".">>, 0))

\* the exponent of sign sg and digits ds
ExponentOf(sg, ds) ==
    IF IsDigitPart(ds) THEN [ok |-> TRUE, e |-> sg * DigitsValue(ds, 0)]
    ELSE [ok |-> FALSE, e |-> 0]

\* the exponent "[sign]digits" after the letter e
ParseExponent(x) ==
    IF x # <<>> /\ x[1] = "-" THEN ExponentOf(-1, Tail(x))
    ELSE IF x # <<>> /\ x[1] = "+" THEN ExponentOf(1, Tail(x))
    ELSE ExponentOf(1, x)

\* the float of sign sg, mantissa mant and exponent expo, once both parsed
Scaled(sg, mant, expo) ==
    IF mant.ok /\ expo.ok
    THEN [ok |-> TRUE,
          v  |-> IF expo.e >= 0 THEN Num(sg * mant.n * Pow10(expo.e), mant.d)
                 ELSE Num(sg * mant.n, mant.d * Pow10(-expo.e))]
    ELSE [ok |-> FALSE, v |-> NaN]

\* the decimal float of sign sg and text body, its letter e being at ePos
DecimalAt(sg, body, ePos) ==
    IF ePos = -1 THEN Scaled(sg, ParseMantissa(body), [ok |-> TRUE, e |-> 0])
    ELSE Scaled(sg, ParseMantissa(Slice(body, 0, ePos)),
                ParseExponent(SliceFrom(body, ePos + 1)))

\* the float of sign sg and text body
Unsigned(sg, body) ==
    IF body \in {<<"i", "n", "f">>, <<"i", "n", "f", "i", "n", "i", "t", "y">>}
    THEN [ok |-> TRUE, v |-> Inf(sg)]
    ELSE IF body = <<"n", "a", "n">> THEN [ok |-> TRUE, v |-> NaN]
    ELSE DecimalAt(sg, body, Find(body, <<"e">>, 0))

\* the float of the stripped text s
Signed(s) ==
    IF s # <<>> /\ s[1] = "-" THEN Unsigned(-1, Tail(s))
    ELSE IF s # <<>> /\ s[1] = "+" THEN Unsigned(1, Tail(s))
    ELSE Unsigned(1, s)

\* float(string): ok = FALSE stands for the ValueError
ParseFloat(string) == Signed(Strip(string))

(***************************************************************************)
(* Expressions: parse                                                      *)
(***************************************************************************)

Quote == <<"\"">>

\* the result of a failed parse (a TinyLangSyntaxError)
NoExpr == [k |-> "none"]

ParseFail == [ok |-> FALSE, e |-> NoExpr]

ParseOk(e) == [ok |-> TRUE, e |-> e]

\* lines 502-509 of ValueExpression.parse: the float f, if float() gave one
FloatLiteral(f) == IF f.ok THEN ParseOk([k |-> "val", v |-> f.v]) ELSE ParseFail

\* lines 497-509 of ValueExpression.parse, the string being stripped
ValueOf(string) ==
    IF string # <<>> /\ string[1] = "\"" /\ string[Len(string)] = "\""
    THEN ParseOk([k |-> "val", v |-> Text(StripChars(string, {"\""}))])
    ELSE FloatLiteral(ParseFloat(string))

\* ValueExpression.parse
ValueExpression_parse(string) == ValueOf(Strip(string))

\* line 544 of ReferenceExpression.parse, the name being checked
ReferenceOf(c) == IF c.ok THEN ParseOk([k |-> "ref", name |-> c.name]) ELSE ParseFail

\* ReferenceExpression.parse
ReferenceExpression_parse(string) == ReferenceOf(check_name_legal(Strip(string)))

\* the members of OperatorExpression.Operator in their order of declaration
OperatorEnum ==
    << <<"+">>, <<"-">>, <<"*">>, <<"/">>, <<"<">>, <<"<", "=">>, <<">">>,
       <<">", "=">>, <<"=", "=">>, <<"!", "=">> >>

IsLong(sym) == Len(sym) = 2

IsShort(sym) == Len(sym) = 1

\* sorted(..., key = length, reverse = True): a stable sort, longer first
SortedOperators == SelectSeq(OperatorEnum, IsLong) \o SelectSeq(OperatorEnum, IsShort)

\* the name of an operator symbol, as ApplyOperator takes it
OpName(sym) ==
    CASE sym = <<"+">> -> "+"  [] sym = <<"-">> -> "-"
      [] sym = <<"*">> -> "*"  [] sym = <<"/">> -> "/"
      [] sym = <<"<">> -> "<"  [] sym = <<">">> -> ">"
      [] sym = <<"<", "=">> -> "<="  [] sym = <<">", "=">> -> ">="
      [] sym = <<"=", "=">> -> "=="  [] sym = <<"!", "=">> -> "!="

\* an OperatorExpression.parse that takes the operator occurring leftmost
FirstOperatorLeftmost(operators, string) ==
    MinOr({i \in 1 .. Len(operators) :
               /\ Find(string, operators[i], 0) # -1
               /\ \A j \in 1 .. Len(operators) :
                      \/ Find(string, operators[j], 0) = -1
                      \/ Find(string, operators[i], 0) < Find(string, operators[j], 0)
                      \/ (Find(string, operators[i], 0) = Find(string, operators[j], 0)
                          /\ i <= j)}, 0)

\* lines 626-633 of OperatorExpression.parse: the index in operators of the
\* first operator that occurs in string, or 0
FirstOperator(operators, string) ==
    MinOr({i \in 1 .. Len(operators) : Find(string, operators[i], 0) # -1}, 0)

RECURSIVE Expression_parse(_)

\* line 646 of OperatorExpression.parse, both sides being parsed
OperatorOf(op_str, expr1, expr2) ==
    IF expr1.ok /\ expr2.ok
    THEN ParseOk([k |-> "op", op |-> OpName(op_str), e1 |-> expr1.e, e2 |-> expr2.e])
    ELSE ParseFail

\* lines 640-646 of OperatorExpression.parse: split at the operator found
SplitAtOperator(string, op_str, operator_pos) ==
    OperatorOf(op_str,
               Expression_parse(Slice(string, 0, operator_pos)),
               Expression_parse(SliceFrom(string, operator_pos + Len(op_str))))

\* lines 636-646 of OperatorExpression.parse, i being the operator found
WithOperator(operators, string, i) ==
    IF i = 0 THEN ParseFail
    ELSE SplitAtOperator(string, operators[i], Find(string, operators[i], 0))

\* OperatorExpression.parse
OperatorExpression_parse(string) ==
    WithOperator(SortedOperators, string, FirstOperator(SortedOperators, string))

\* an Expression.parse that tries OperatorExpression first
FirstParsedOperator(v, o, r) == IF o.ok THEN o ELSE IF v.ok THEN v ELSE r

\* the first of the three parses that succeeded
FirstParsed(v, o, r) == IF v.ok THEN v ELSE IF o.ok THEN o ELSE r

\* Expression.parse: the first of the three forms that parses
Expression_parse(string) ==
    FirstParsed(ValueExpression_parse(string),
                OperatorExpression_parse(string),
                ReferenceExpression_parse(string))

(***************************************************************************)
(* Expressions: eval                                                       *)
(***************************************************************************)

\* the names bound in a context
Names(context) == DOMAIN context

\* line 662 of OperatorExpression.eval, both operands being evaluated
Applied(op, x, y) ==
    IF x.err # "none" THEN x
    ELSE IF y.err # "none" THEN y
    ELSE ApplyOperator(op, x.v, y.v)

\* Expression.eval of the three classes; context.get(name) is None exactly
\* when name is no key, as no statement stores None
RECURSIVE Eval(_, _)
Eval(e, context) ==
    CASE e.k = "val" -> Ok(e.v)
      [] e.k = "ref" ->
            IF e.name \in Names(context) THEN Ok(context[e.name])
            ELSE [err |-> "UndefinedVariable", v |-> NaN, name |-> e.name]
      [] e.k = "op" -> Applied(e.op, Eval(e.e1, context), Eval(e.e2, context))

(***************************************************************************)
(* Statements: parse                                                       *)
(***************************************************************************)

\* an empty slot of the program: the statement None
None == [k |-> "none"]

\* the result of a statement parse that raised TinyLangSyntaxError
StmtFail == [ok |-> FALSE, st |-> None]

StmtOk(st) == [ok |-> TRUE, st |-> st]

\* line 257 of LetStatement.parse, the name being checked and the expression
\* parsed
LetOf(c, e) ==
    IF ~c.ok THEN StmtFail
    ELSE IF ~e.ok THEN StmtFail
    ELSE StmtOk([k |-> "let", name |-> c.name, value_expr |-> e.e])

\* lines 247-257 of LetStatement.parse, both sides of the "=" being stripped
LetSides(name, expression) ==
    IF Len(name) = 0 THEN StmtFail
    ELSE IF ~check_name_legal(name).ok THEN StmtFail
    ELSE IF Len(expression) = 0 THEN StmtFail
    ELSE LetOf(check_name_legal(name), Expression_parse(expression))

\* lines 245-257 of LetStatement.parse, the string being split
LetSplit(sp) ==
    IF ~sp.found THEN StmtFail ELSE LetSides(Strip(sp.head), Strip(sp.tail))

\* LetStatement.parse
LetStatement_parse(string) == LetSplit(quoted_split_first(string, <<"=">>, Quote))

\* lines 300-304 of IfStatement.parse, the expression being parsed
IfOf(e, target) ==
    IF ~e.ok THEN StmtFail
    ELSE IF Len(target) = 0 THEN StmtFail
    ELSE StmtOk([k |-> "if", cond_expr |-> e.e, target |-> target])

\* lines 295-304 of IfStatement.parse, the string being split
IfSplit(sp) ==
    IF ~sp.found THEN StmtFail
    ELSE IfOf(Expression_parse(Strip(sp.head)), Strip(sp.tail))

\* IfStatement.parse
IfStatement_parse(string) ==
    IfSplit(quoted_split_first(string, <<"g", "o", "t", "o">>, Quote))

\* lines 343-346 of InputStatement.parse, the name being stripped and checked
InputOf(name, c) ==
    IF Len(name) = 0 THEN StmtFail
    ELSE IF ~c.ok THEN StmtFail
    ELSE StmtOk([k |-> "input", name |-> c.name])

\* InputStatement.parse
InputStatement_parse(string) == InputOf(Strip(string), check_name_legal(Strip(string)))

\* lines 396-399 of PrintStatement.parse: one segment, stripped and parsed,
\* before the rest of the list
Listed(segment, e, rest) ==
    IF Len(segment) = 0 \/ ~e.ok \/ ~rest.ok
    THEN [ok |-> FALSE, list |-> <<>>]
    ELSE [ok |-> TRUE, list |-> <<e.e>> \o rest.list]

\* the for loop of PrintStatement.parse over the segments
RECURSIVE ParseSegments(_)
ParseSegments(segments) ==
    IF segments = <<>> THEN [ok |-> TRUE, list |-> <<>>]
    ELSE Listed(Strip(Head(segments)),
                Expression_parse(Strip(Head(segments))),
                ParseSegments(Tail(segments)))

\* line 401 of PrintStatement.parse, the list being parsed
PrintOf(es) ==
    IF ~es.ok THEN StmtFail ELSE StmtOk([k |-> "print", expr_list |-> es.list])

\* lines 390-401 of PrintStatement.parse, the string being split
PrintSplit(qs) == IF ~qs.closed THEN StmtFail ELSE PrintOf(ParseSegments(qs.segments))

\* lines 387-401 of PrintStatement.parse, the string being stripped
PrintStripped(string) ==
    IF Len(string) = 0 THEN StmtOk([k |-> "print", expr_list |-> <<>>])
    ELSE PrintSplit(quoted_split(string, <<",">>, Quote))

\* PrintStatement.parse
PrintStatement_parse(string) == PrintStripped(Strip(string))

\* lines 196-204 of Statement.parse: the parser of the keyword's class
Dispatch(keyword, content) ==
    CASE keyword = <<"l", "e", "t">> -> LetStatement_parse(content)
      [] keyword = <<"i", "f">> -> IfStatement_parse(content)
      [] keyword = <<"i", "n", "p", "u", "t">> -> InputStatement_parse(content)
      [] keyword = <<"p", "r", "i", "n", "t">> -> PrintStatement_parse(content)
      [] OTHER -> StmtFail

\* lines 193-204 of Statement.parse, the string being split
KeywordSplit(string, sp) ==
    IF sp.found THEN Dispatch(sp.head, sp.tail) ELSE Dispatch(string, <<>>)

\* Statement.parse: the keyword, then the parser of its class
Statement_parse(string) ==
    KeywordSplit(string, quoted_split_first(string, <<" ">>, Quote))

\* the label of a line that has none
NoLabel == <<>>

\* the line that raised TinyLangSyntaxError
LineFail == [ok |-> FALSE, hasLabel |-> FALSE, label |-> NoLabel, statement |-> None]

\* line 110 of parse_one_line_string: the label and the statement
LineOf(hasLabel, label, st) ==
    IF ~st.ok THEN LineFail
    ELSE [ok |-> TRUE, hasLabel |-> hasLabel, label |-> label, statement |-> st.st]

\* lines 104-108 of parse_one_line_string, the statement being stripped
StatementOf(statement) ==
    IF Len(statement) > 0 THEN Statement_parse(statement) ELSE StmtOk(None)

\* lines 100-101 of parse_one_line_string: the label is checked whenever the
\* line has a ':' outside the quotes
Labelled(c, statement) ==
    IF ~c.ok THEN LineFail ELSE LineOf(TRUE, c.name, StatementOf(statement))

\* lines 100-110 of parse_one_line_string, the string being split
LineSplit(sp) ==
    IF sp.found THEN Labelled(check_name_legal(sp.head), Strip(sp.tail))
    ELSE LineOf(FALSE, NoLabel, StatementOf(Strip(sp.tail)))

\* TinyLangInterpreter.parse_one_line_string: ok = FALSE stands for the
\* TinyLangSyntaxError; hasLabel = FALSE for the label None
parse_one_line_string(string) == LineSplit(quoted_split_first(string, <<":">>, Quote))

(***************************************************************************)
(* The source texts and the input lines the model draws from               *)
(***************************************************************************)

\* a labelled read from the input provider:
\*     a: input n
Text1 ==
    <<"a", ":", " ", "i", "n", "p", "u", "t", " ", "n">>

\* the same label again, on a goto to its own line:
\*     a: if n goto a
Text2 ==
    <<"a", ":", " ", "i", "f", " ", "n", " ", "g", "o", "t", "o", " ", "a">>

\* a forward goto over a blank line:
\*     if 1 goto b
\*
\*     b: print n
Text3 ==
    <<"i", "f", " ", "1", " ", "g", "o", "t", "o", " ", "b", "\n">> \o
    <<"\n">> \o
    <<"b", ":", " ", "p", "r", "i", "n", "t", " ", "n">>

\* a goto whose target its own text does not define:
\*     if n goto b
Text4 ==
    <<"i", "f", " ", "n", " ", "g", "o", "t", "o", " ", "b">>

\* a blank line, then a labelled reference to a variable nothing sets:
\*
\*     b: print n, z
Text5 ==
    <<"\n">> \o
    <<"b", ":", " ", "p", "r", "i", "n", "t", " ", "n", ",", " ", "z">>

\* an empty label:
\*     : print 1
Text6 ==
    <<":", " ", "p", "r", "i", "n", "t", " ", "1">>

\* a line that does not parse between two labelled statements:
\*     a: let x = 1
\*     let = 2
\*     c: print x
Text7 ==
    <<"a", ":", " ", "l", "e", "t", " ", "x", " ", "=", " ", "1", "\n">> \o
    <<"l", "e", "t", " ", "=", " ", "2", "\n">> \o
    <<"c", ":", " ", "p", "r", "i", "n", "t", " ", "x">>

\* a label alone, a blank line, the label again:
\*     a:
\*
\*     a: let n = n - 1
Text8 ==
    <<"a", ":", "\n">> \o
    <<"\n">> \o
    <<"a", ":", " ", "l", "e", "t", " ", "n", " ", "=", " ", "n", " ", "-", " ", "1">>

TextSeq == <<Text1, Text2, Text3, Text4, Text5, Text6, Text7, Text8>>

\* what the input provider may return: a line of raw text
Inputs == {<<"2">>, <<"0">>, <<"n", "o">>}

\* lines 125-136 of load_string: the lines of a text, each parsed
ParsedLines(lines) == [j \in 1 .. Len(lines) |-> parse_one_line_string(lines[j])]

ParsedTexts == [i \in 1 .. Len(TextSeq) |-> ParsedLines(SplitLines(TextSeq[i]))]

(***************************************************************************)
(* Bounds of the model                                                     *)
(***************************************************************************)

\* load_string is not called once the program would exceed this length
MaxProg == 3

\* no Number beyond this magnitude (numerator, denominator) is stored
MaxNum == 3

\* no Text longer than this is stored
MaxText == 2

\* a resume call sends no more than this many objects to the output sink
MaxOutput == 4

(***************************************************************************)
(* The interpreter and its caller                                          *)
(***************************************************************************)

VARIABLES
    statements,  \* TinyLangInterpreter.statements: the slots of the program
    next_line,   \* TinyLangInterpreter.next_line: the cursor
    labels,      \* TinyLangInterpreter.labels: label name -> line
    context,     \* TinyLangInterpreter.context: variable name -> value
    pc,          \* "idle": no call in progress; "loop": resume is at its while
                 \* test; "exec": resume has advanced and is about to execute
    this_line,   \* the local this_line of resume
    raised,      \* the exception the last call raised to its caller, if any
    output,      \* the objects sent to print() by the current resume call
    call,        \* history: the last call made on the interpreter
    src,         \* history: for each slot, the line of source it came from
    endLen,      \* history: the program length when resume last returned with
                 \* the cursor at the end, -1 once that no longer applies
    first,       \* history: the current resume call has executed no line yet
    jumped,      \* history: the current resume call has taken a goto
    arg,         \* the argument of a call of one of the utility functions
    ret          \* what that call returned

vars == <<statements, next_line, labels, context, pc, this_line, raised, output,
          call, src, endLen, first, jumped, arg, ret>>

interp == <<statements, next_line, labels, context>>

util == <<arg, ret>>

\* no utility function has been called
NoCall == [f |-> "none"]

\* an exception: its class, the line it carries (-1: none), a name it carries
Exc(kind, line, name) == [kind |-> kind, line |-> line, name |-> name]

NoExc == Exc("none", -1, <<>>)

\* TinyLangInterpreter.__init__
Init ==
    /\ statements = <<>>
    /\ next_line = 0
    /\ labels = <<>>
    /\ context = <<>>
    /\ pc = "idle"
    /\ this_line = -1
    /\ raised = NoExc
    /\ output = <<>>
    /\ call = [op |-> "none", text |-> 0, keep_empty |-> TRUE, from_line |-> -1,
               has_from |-> FALSE]
    /\ src = <<>>
    /\ endLen = -1
    /\ first = FALSE
    /\ jumped = FALSE
    /\ arg = <<>>
    /\ ret = NoCall

\* d[key] = value on a dict
DictSet(d, key, value) ==
    [k \in DOMAIN d \cup {key} |-> IF k = key THEN value ELSE d[k]]

\* a load_string that keeps the first definition of a label
RegisterLabelFirst(labs, label, line) ==
    IF label \in DOMAIN labs THEN labs ELSE DictSet(labs, label, line)

\* a load_string that gives a label the number of the line after its own
RegisterLabelAfter(labs, label, line) == DictSet(labs, label, line + 1)

\* line 146 of load_string: self.labels[label] = line
RegisterLabel(labs, label, line) == DictSet(labs, label, line)

\* a load_string that skips every line without a statement, labelled or not
SkipLineLabelOnly(keep_empty, p) == ~keep_empty /\ p.statement = None

\* line 139 of load_string: whether the parsed line is skipped
SkipLine(keep_empty, p) == ~keep_empty /\ ~p.hasLabel /\ p.statement = None

\* the outcome of load_string
Loaded(stmts, labs, source, exc) ==
    [statements |-> stmts, labels |-> labs, src |-> source, exc |-> exc]

\* lines 144-146 of load_string: the labels after the line p is stored at line
Labels(labs, p, line) ==
    IF p.hasLabel THEN RegisterLabel(labs, p.label, line) ELSE labs

RECURSIVE LoadLoop(_, _, _, _, _, _, _)

\* a load_string that reports the line of the text, not of the program
LoadLineOfText(parsed, j, keep_empty, fresh, stmts, labs, source, p) ==
    IF ~p.ok
    THEN Loaded(stmts, labs, source, Exc("TinyLangSyntaxError", j - 1, <<>>))
    ELSE IF SkipLine(keep_empty, p)
    THEN LoadLoop(parsed, j + 1, keep_empty, fresh, stmts, labs, source)
    ELSE LoadLoop(parsed, j + 1, keep_empty, fresh,
             Append(stmts, p.statement),
             Labels(labs, p, Len(stmts)),
             Append(source, [label |-> p.label, lineno |-> j - 1, fresh |-> fresh,
                            base |-> Len(statements)]))

\* lines 126-146 of load_string: the line p, which is line j of the text
LoadLine(parsed, j, keep_empty, fresh, stmts, labs, source, p) ==
    IF ~p.ok
    THEN Loaded(stmts, labs, source, Exc("TinyLangSyntaxError", Len(stmts), <<>>))
    ELSE IF SkipLine(keep_empty, p)
    THEN LoadLoop(parsed, j + 1, keep_empty, fresh, stmts, labs, source)
    ELSE LoadLoop(parsed, j + 1, keep_empty, fresh,
             Append(stmts, p.statement),
             Labels(labs, p, Len(stmts)),
             Append(source, [label |-> p.label, lineno |-> j - 1, fresh |-> fresh,
                            base |-> Len(statements)]))

\* the for loop of load_string from line j of the parsed lines on; fresh tells
\* whether the call loads with keep_empty into an empty interpreter
LoadLoop(parsed, j, keep_empty, fresh, stmts, labs, source) ==
    IF j > Len(parsed) THEN Loaded(stmts, labs, source, NoExc)
    ELSE LoadLine(parsed, j, keep_empty, fresh, stmts, labs, source, parsed[j])

\* a load_string that replaces the program instead of extending it
load_string_replacing(i, keep_empty) ==
    LoadLoop(ParsedTexts[i], 1, keep_empty, keep_empty /\ statements = <<>>,
             <<>>, labels, <<>>)

\* TinyLangInterpreter.load_string on text number i
load_string(i, keep_empty) ==
    LoadLoop(ParsedTexts[i], 1, keep_empty, keep_empty /\ statements = <<>>,
             statements, labels, src)

\* a call may be made: the caller holds the interpreter and the program stays
\* within the bound
CanLoad(i) ==
    /\ pc = "idle"
    /\ Len(statements) + Len(ParsedTexts[i]) <= MaxProg

\* the caller has the outcome r of load_string
Store(r) ==
    /\ statements' = r.statements
    /\ labels' = r.labels
    /\ src' = r.src
    /\ raised' = r.exc

\* the caller calls load_string
LoadString(i, keep_empty) ==
    /\ CanLoad(i)
    /\ Store(load_string(i, keep_empty))
    /\ call' = [op |-> "load_string", text |-> i, keep_empty |-> keep_empty,
                from_line |-> -1, has_from |-> FALSE]
    /\ UNCHANGED <<next_line, context, pc, this_line, output, endLen, first, jumped>>
    /\ UNCHANGED util

\* a resume that starts over from line 0 when it is given no line
StartLineTop(has_from, from_line, cursor) == IF has_from THEN from_line ELSE 0

\* lines 70-71 of resume: the cursor the loop starts from
StartLine(has_from, from_line, cursor) == IF has_from THEN from_line ELSE cursor

\* the caller calls resume: up to the first test of the while loop
Resume(has_from, from_line) ==
    /\ pc = "idle"
    /\ next_line' = StartLine(has_from, from_line, next_line)
    /\ pc' = "loop"
    /\ raised' = NoExc
    /\ output' = <<>>
    /\ call' = [op |-> "resume", text |-> 0, keep_empty |-> TRUE,
                from_line |-> IF has_from THEN from_line ELSE -1,
                has_from |-> has_from]
    /\ endLen' = IF has_from THEN -1 ELSE endLen
    /\ first' = TRUE
    /\ jumped' = FALSE
    /\ UNCHANGED <<statements, labels, context, this_line, src>>
    /\ UNCHANGED util

\* the caller calls execute_string: load_string, then resume() unless the
\* load raised
\* an execute_string that runs from the first line it has loaded itself
ExecuteStringOwnLines(i, keep_empty) ==
    /\ CanLoad(i)
    /\ Store(load_string(i, keep_empty))
    /\ pc' = IF raised' = NoExc THEN "loop" ELSE "idle"
    /\ output' = IF raised' = NoExc THEN <<>> ELSE output
    /\ first' = (raised' = NoExc)
    /\ jumped' = IF raised' = NoExc THEN FALSE ELSE jumped
    /\ call' = [op |-> "execute_string", text |-> i, keep_empty |-> keep_empty,
                from_line |-> -1, has_from |-> FALSE]
    /\ next_line' = IF raised' = NoExc THEN Len(statements) ELSE next_line
    /\ UNCHANGED <<context, this_line, endLen>>
    /\ UNCHANGED util

ExecuteString(i, keep_empty) ==
    /\ CanLoad(i)
    /\ Store(load_string(i, keep_empty))
    /\ pc' = IF raised' = NoExc THEN "loop" ELSE "idle"
    /\ output' = IF raised' = NoExc THEN <<>> ELSE output
    /\ first' = (raised' = NoExc)
    /\ jumped' = IF raised' = NoExc THEN FALSE ELSE jumped
    /\ call' = [op |-> "execute_string", text |-> i, keep_empty |-> keep_empty,
                from_line |-> -1, has_from |-> FALSE]
    /\ UNCHANGED <<next_line, context, this_line, endLen>>
    /\ UNCHANGED util

\* line 74 of resume: the test of the while loop
Running == 0 <= next_line /\ next_line < Len(statements)

\* a resume that leaves the advance of the cursor out
AdvanceNot(line) == line

\* line 76 of resume: the cursor after the advance
Advance(line) == line + 1

\* lines 75-77 of resume: take the line at the cursor and advance the cursor
StepAdvance ==
    /\ pc = "loop"
    /\ Running
    /\ this_line' = next_line
    /\ next_line' = Advance(next_line)
    /\ pc' = "exec"
    /\ first' = FALSE
    /\ UNCHANGED <<statements, labels, context, raised, output, call, src, endLen,
                   jumped>>
    /\ UNCHANGED util

\* the while test fails: resume returns to its caller
Return ==
    /\ pc = "loop"
    /\ ~Running
    /\ pc' = "idle"
    /\ endLen' = IF next_line = Len(statements) THEN Len(statements) ELSE -1
    /\ first' = FALSE
    /\ UNCHANGED <<statements, next_line, labels, context, this_line, raised,
                   output, call, src, jumped>>
    /\ UNCHANGED util

(***************************************************************************)
(* Statements: exec                                                        *)
(***************************************************************************)

\* the classes derived from TinyLangRuntimeError
IsTinyLangRuntimeError(kind) ==
    kind \in {"UndefinedVariableError", "IllegalGotoLabelError", "IllegalInputError",
              "UnknownRuntimeError"}

\* the classes derived from Python's RuntimeError; TypeError and
\* ZeroDivisionError are not among them
IsRuntimeError(kind) ==
    \/ IsTinyLangRuntimeError(kind)
    \/ kind \in {"TinyLangSyntaxError", "UnknownCompileError", "RuntimeError"}

\* lines 79-84 of resume: what the try statement lets out for an exception
\* raised by statement.exec at line
ResumeExcept(exc, line) ==
    IF IsTinyLangRuntimeError(exc.kind) THEN exc
    ELSE IF IsRuntimeError(exc.kind) THEN Exc("UnknownCompileError", line, <<>>)
    ELSE exc

\* an evaluation that reports the line the cursor has advanced to
EvalExcAdvanced(r, line) ==
    IF r.err = "UndefinedVariable" THEN Exc("UndefinedVariableError", line + 1, r.name)
    ELSE Exc(r.err, -1, <<>>)

\* the exception an evaluation result stands for
EvalExc(r, line) ==
    IF r.err = "UndefinedVariable" THEN Exc("UndefinedVariableError", line, r.name)
    ELSE Exc(r.err, -1, <<>>)

\* whether a value fits the bounds of the model
InBounds(v) ==
    CASE v.t = "num" -> Abs(v.n) <= MaxNum /\ v.d <= MaxNum
      [] v.t = "text" -> Len(v.s) <= MaxText
      [] OTHER -> TRUE

\* the statement resume is executing
Current == statements[this_line + 1]

\* a resume that swallows the exception and goes on with the loop
AbortSwallowed(exc) ==
    /\ pc' = "loop"
    /\ raised' = ResumeExcept(exc, this_line)
    /\ endLen' = -1

\* statement.exec raised: resume lets the exception out to its caller
Abort(exc) ==
    /\ pc' = "idle"
    /\ raised' = ResumeExcept(exc, this_line)
    /\ endLen' = -1

\* statement.exec returned: back to the while test
Continue ==
    /\ pc' = "loop"
    /\ UNCHANGED <<raised, endLen>>

\* the slot holds None: nothing is executed
ExecNone ==
    /\ pc = "exec"
    /\ Current.k = "none"
    /\ Continue
    /\ UNCHANGED <<interp, this_line, output, call, src, first, jumped>>
    /\ UNCHANGED util

\* line 267 of LetStatement.exec, and line 360 of InputStatement.exec: the
\* value is stored under the name, unless getting the value raised
\* a let or input that stores what it has before it raises
AssignBeforeRaise(name, value, exc) ==
    IF exc = NoExc
    THEN /\ InBounds(value)
         /\ context' = DictSet(context, name, value)
         /\ Continue
    ELSE /\ Abort(exc)
         /\ context' = DictSet(context, name, value)

Assign(name, value, exc) ==
    IF exc = NoExc
    THEN /\ InBounds(value)
         /\ context' = DictSet(context, name, value)
         /\ Continue
    ELSE /\ Abort(exc)
         /\ UNCHANGED context

\* line 266 of LetStatement.exec, the expression being evaluated
LetValue(name, value) ==
    IF value.err = "none" THEN Assign(name, value.v, NoExc)
    ELSE Assign(name, value.v, EvalExc(value, this_line))

\* LetStatement.exec
ExecLet ==
    /\ pc = "exec"
    /\ Current.k = "let"
    /\ LetValue(Current.name, Eval(Current.value_expr, context))
    /\ UNCHANGED <<statements, next_line, labels, this_line, output, call, src,
                   first, jumped>>
    /\ UNCHANGED util

\* line 313 of IfStatement.exec: value != 0
NonZero(v) == ~(v.t = "num" /\ v.n = 0)

\* line 317 of IfStatement.exec: the cursor after a goto whose target is known
GotoLine(labs, target, cursor) == labs[target]

\* line 314 of IfStatement.exec: labels.get(target) is None exactly when
\* target is no key, as load_string stores line numbers only
HasLabel(labs, target) == target \in DOMAIN labs

\* an IfStatement.exec that looks the target up before it tests the condition
BranchLabelFirst(cond, target) ==
    IF cond.err # "none"
    THEN /\ Abort(EvalExc(cond, this_line))
         /\ UNCHANGED <<next_line, jumped>>
    ELSE IF ~HasLabel(labels, target)
    THEN /\ Abort(Exc("IllegalGotoLabelError", this_line, target))
         /\ UNCHANGED <<next_line, jumped>>
    ELSE IF NonZero(cond.v)
    THEN /\ next_line' = GotoLine(labels, target, next_line)
         /\ jumped' = TRUE
         /\ Continue
    ELSE /\ Continue
         /\ UNCHANGED <<next_line, jumped>>

\* lines 313-317 of IfStatement.exec, the condition being evaluated
Branch(cond, target) ==
    IF cond.err # "none"
    THEN /\ Abort(EvalExc(cond, this_line))
         /\ UNCHANGED <<next_line, jumped>>
    ELSE IF NonZero(cond.v)
    THEN IF HasLabel(labels, target)
         THEN /\ next_line' = GotoLine(labels, target, next_line)
              /\ jumped' = TRUE
              /\ Continue
         ELSE /\ Abort(Exc("IllegalGotoLabelError", this_line, target))
              /\ UNCHANGED <<next_line, jumped>>
    ELSE /\ Continue
         /\ UNCHANGED <<next_line, jumped>>

\* IfStatement.exec
ExecIf ==
    /\ pc = "exec"
    /\ Current.k = "if"
    /\ Branch(Eval(Current.cond_expr, context), Current.target)
    /\ UNCHANGED <<statements, labels, context, this_line, output, call, src, first>>
    /\ UNCHANGED util

\* lines 356-360 of InputStatement.exec, f being float(value)
InputValue(name, f) ==
    IF f.ok THEN Assign(name, f.v, NoExc)
    ELSE Assign(name, f.v, Exc("IllegalInputError", this_line, <<>>))

\* InputStatement.exec, the input provider returning the line value
ExecInput(value) ==
    /\ pc = "exec"
    /\ Current.k = "input"
    /\ InputValue(Current.name, ParseFloat(value))
    /\ UNCHANGED <<statements, next_line, labels, this_line, output, call, src,
                   first, jumped>>
    /\ UNCHANGED util

\* the objects print() receives: a value, or the text ' ' or '\n'
Sep == Text(<<" ">>)

Newline == Text(<<"\n">>)

\* lines 410-414 of PrintStatement.exec from expression j on: what is printed
\* and the evaluation that raised, if one did
RECURSIVE PrintLoop(_, _, _, _)

\* lines 411 and 414 of PrintStatement.exec: expression j, being evaluated, is
\* printed unless the evaluation raised
PrintValue(expr_list, j, ctx, sent, value) ==
    IF value.err # "none" THEN [out |-> sent, res |-> value]
    ELSE PrintLoop(expr_list, j + 1, ctx, Append(sent, value.v))

\* a PrintStatement.exec that prints the separator before the first value too
PrintLoopLeading(expr_list, j, ctx, out) ==
    IF j > Len(expr_list) THEN [out |-> out, res |-> Ok(NaN)]
    ELSE PrintValue(expr_list, j, ctx, Append(out, Sep), Eval(expr_list[j], ctx))

PrintLoop(expr_list, j, ctx, out) ==
    IF j > Len(expr_list) THEN [out |-> out, res |-> Ok(NaN)]
    ELSE PrintValue(expr_list, j, ctx,
                    IF j > 1 THEN Append(out, Sep) ELSE out,
                    Eval(expr_list[j], ctx))

\* a PrintStatement.exec that sends nothing when an evaluation raises
PrintedAtomic(r) ==
    IF r.res.err = "none"
    THEN /\ Len(output) + Len(r.out) + 1 <= MaxOutput
         /\ output' = output \o r.out \o <<Newline>>
         /\ Continue
    ELSE /\ Len(output) + Len(r.out) <= MaxOutput
         /\ output' = output
         /\ Abort(EvalExc(r.res, this_line))

\* line 415 of PrintStatement.exec: the newline, unless an evaluation raised
Printed(r) ==
    IF r.res.err = "none"
    THEN /\ Len(output) + Len(r.out) + 1 <= MaxOutput
         /\ output' = output \o r.out \o <<Newline>>
         /\ Continue
    ELSE /\ Len(output) + Len(r.out) <= MaxOutput
         /\ output' = output \o r.out
         /\ Abort(EvalExc(r.res, this_line))

\* PrintStatement.exec
ExecPrint ==
    /\ pc = "exec"
    /\ Current.k = "print"
    /\ Printed(PrintLoop(Current.expr_list, 1, context, <<>>))
    /\ UNCHANGED <<interp, this_line, call, src, first, jumped>>
    /\ UNCHANGED util

(***************************************************************************)
(* TinyLangInterpreter.print: print(obj, end='') writes str(obj). The       *)
(* model has one zero, so the "-0.0" of a negative zero is not modelled,    *)
(* nor are the Numbers whose repr is not a short plain decimal.             *)
(***************************************************************************)

RECURSIVE DigitChars(_)

\* str(n) for an int n >= 0
DigitChars(n) ==
    IF n < 10 THEN <<DigitSeq[n + 1]>>
    ELSE Append(DigitChars(n \div 10), DigitSeq[(n % 10) + 1])

RECURSIVE FractionChars(_, _)

\* the decimal digits of r/d for 0 <= r < d, r/d being a finite decimal
FractionChars(r, d) ==
    IF r = 0 THEN <<>>
    ELSE <<DigitSeq[((10 * r) \div d) + 1]>> \o FractionChars((10 * r) % d, d)

\* the finite Numbers whose repr is their exact decimal in plain notation:
\* at most four decimal places, below 10^5, and not below 10^-4 unless zero
IsPlain(v) ==
    /\ (Abs(v.n) * Pow10(4)) % v.d = 0
    /\ Abs(v.n) < Pow10(5) * v.d
    /\ v.n = 0 \/ Abs(v.n) * Pow10(4) >= v.d

\* the repr of a plain Number: a float always shows a decimal point, so a
\* whole Number ends in ".0"
PlainRepr(v) ==
    (IF v.n < 0 THEN <<"-">> ELSE <<>>) \o DigitChars(Abs(v.n) \div v.d) \o <<".">> \o
    (IF Abs(v.n) % v.d = 0 THEN <<"0">> ELSE FractionChars(Abs(v.n) % v.d, v.d))

\* a repr the model does not compute
Unrendered == <<"?">>

\* str(obj) for the objects print() receives
Str(v) ==
    CASE v.t = "text" -> v.s
      [] v.t = "inf" -> IF v.n > 0 THEN <<"i", "n", "f">> ELSE <<"-", "i", "n", "f">>
      [] v.t = "nan" -> <<"n", "a", "n">>
      [] v.t = "num" -> IF IsPlain(v) THEN PlainRepr(v) ELSE Unrendered

RECURSIVE Rendered(_)

\* the characters the objects of out put on the standard output, in order
Rendered(out) ==
    IF out = <<>> THEN <<>> ELSE Str(Head(out)) \o Rendered(Tail(out))

Next ==
    \/ \E i \in 1 .. Len(TextSeq), keep_empty \in BOOLEAN : LoadString(i, keep_empty)
    \/ \E i \in 1 .. Len(TextSeq), keep_empty \in BOOLEAN : ExecuteString(i, keep_empty)
    \/ Resume(FALSE, -1)
    \/ \E from_line \in -1 .. Len(statements) + 1 : Resume(TRUE, from_line)
    \/ StepAdvance
    \/ Return
    \/ ExecNone
    \/ ExecLet
    \/ ExecIf
    \/ \E value \in Inputs : ExecInput(value)
    \/ ExecPrint

Spec == Init /\ [][Next]_vars

\* a caller that never gives resume a from_line
NextNoFrom ==
    \/ \E i \in 1 .. Len(TextSeq), keep_empty \in BOOLEAN : LoadString(i, keep_empty)
    \/ \E i \in 1 .. Len(TextSeq), keep_empty \in BOOLEAN : ExecuteString(i, keep_empty)
    \/ Resume(FALSE, -1)
    \/ StepAdvance
    \/ Return
    \/ ExecNone
    \/ ExecLet
    \/ ExecIf
    \/ \E value \in Inputs : ExecInput(value)
    \/ ExecPrint

SpecNoFrom == Init /\ [][NextNoFrom]_vars

(***************************************************************************)
(* The front ends: main_script and main_interactive                        *)
(***************************************************************************)

\* a print without expressions:
\*     print
Text9 ==
    <<"p", "r", "i", "n", "t">>

\* a print of a Text and a Number:
\*     print "a", n
Text10 ==
    <<"p", "r", "i", "n", "t", " ", "\"", "a", "\"", ",", " ", "n">>

\* an arithmetic operator on a Text and a Number:
\*     print "a" - 1
Text11 ==
    <<"p", "r", "i", "n", "t", " ", "\"", "a", "\"", " ", "-", " ", "1">>

\* a division by zero:
\*     let x = 1 / 0
Text12 ==
    <<"l", "e", "t", " ", "x", " ", "=", " ", "1", " ", "/", " ", "0">>

\* two assignments and a print:
\*     let x = 1
\*     let y = x + 2
\*     print y
Text13 ==
    <<"l", "e", "t", " ", "x", " ", "=", " ", "1", "\n">> \o
    <<"l", "e", "t", " ", "y", " ", "=", " ", "x", " ", "+", " ", "2", "\n">> \o
    <<"p", "r", "i", "n", "t", " ", "y">>

\* the countdown, behind the line that reads the initial value of n:
\*     input n
\*     loop: let n = n - 1
\*     if n > 0 goto loop
\*     print n
Text14 ==
    <<"i", "n", "p", "u", "t", " ", "n", "\n">> \o
    <<"l", "o", "o", "p", ":", " ", "l", "e", "t", " ", "n", " ", "=", " ",
      "n", " ", "-", " ", "1", "\n">> \o
    <<"i", "f", " ", "n", " ", ">", " ", "0", " ", "g", "o", "t", "o", " ",
      "l", "o", "o", "p", "\n">> \o
    <<"p", "r", "i", "n", "t", " ", "n">>

\* a label alone:
\*     c:
Text15 ==
    <<"c", ":">>

\* one input line holding a form feed: a: print 1, form feed, let = 2
Text16 ==
    <<"a", ":", " ", "p", "r", "i", "n", "t", " ", "1", "\f",
      "l", "e", "t", " ", "=", " ", "2">>

\* the script files main_script may be given
ScriptSeq == <<Text13, Text14>>

\* the lines the user of main_interactive may type
LineSeq == <<Text1, Text6, Text9, Text10, Text11, Text12, Text15, Text16>>

ParsedScripts == [i \in 1 .. Len(ScriptSeq) |-> ParsedLines(SplitLines(ScriptSeq[i]))]

ParsedInputLines == [i \in 1 .. Len(LineSeq) |-> ParsedLines(SplitLines(LineSeq[i]))]

\* what the input provider may return under the front ends: an initial
\* value for the countdown, or a line that is no number
MainInputs == {<<"1">>, <<"2">>, <<"3">>, <<"n", "o">>}

\* the process has started: main has a new interpreter and no front end yet
InitMain ==
    /\ statements = <<>>
    /\ next_line = 0
    /\ labels = <<>>
    /\ context = <<>>
    /\ pc = "start"
    /\ this_line = -1
    /\ raised = NoExc
    /\ output = <<>>
    /\ call = [op |-> "none", text |-> 0, keep_empty |-> TRUE, from_line |-> -1,
               has_from |-> FALSE]
    /\ src = <<>>
    /\ endLen = -1
    /\ first = FALSE
    /\ jumped = FALSE
    /\ arg = <<>>
    /\ ret = NoCall

\* a front end calls execute_string on a text, parsed being its parsed lines
Execute(parsed, keep_empty, op, i) ==
    /\ Store(LoadLoop(parsed, 1, keep_empty, keep_empty /\ statements = <<>>,
                      statements, labels, src))
    /\ pc' = IF raised' = NoExc THEN "loop" ELSE "idle"
    /\ output' = IF raised' = NoExc THEN <<>> ELSE output
    /\ first' = (raised' = NoExc)
    /\ jumped' = IF raised' = NoExc THEN FALSE ELSE jumped
    /\ call' = [op |-> op, text |-> i, keep_empty |-> keep_empty,
                from_line |-> -1, has_from |-> FALSE]
    /\ UNCHANGED <<next_line, context, this_line, endLen>>
    /\ UNCHANGED util

\* main_script: the whole file goes to execute_string, empty lines kept
MainScript(i) ==
    /\ pc = "start"
    /\ Execute(ParsedScripts[i], TRUE, "main_script", i)

\* main_script is over, whether execute_string returned or raised
ScriptDone ==
    /\ pc = "idle"
    /\ call.op = "main_script"
    /\ pc' = "ended"
    /\ UNCHANGED <<interp, this_line, raised, output, call, src, endLen, first,
                   jumped, util>>

\* main calls main_interactive, which goes to its first input()
MainInteractive ==
    /\ pc = "start"
    /\ pc' = "prompt"
    /\ call' = [op |-> "main_interactive", text |-> 0, keep_empty |-> FALSE,
                from_line |-> -1, has_from |-> FALSE]
    /\ UNCHANGED <<interp, this_line, raised, output, src, endLen, first, jumped,
                   util>>

\* lines 904-905 of main_interactive: the line read goes to execute_string,
\* empty lines skipped
ReadLine(i) ==
    /\ pc = "prompt"
    /\ Len(statements) + Len(ParsedInputLines[i]) <= MaxProg
    /\ Execute(ParsedInputLines[i], FALSE, "main_interactive", i)

\* lines 906-913 of main_interactive: the except clause that takes exc, if
\* one does: "continue", "break", or "none" for an exception that leaves main
ExceptClause(exc) ==
    IF exc.kind \in {"TinyLangSyntaxError", "UnknownCompileError"} THEN "continue"
    ELSE IF IsTinyLangRuntimeError(exc.kind) THEN "break"
    ELSE "none"

\* the while loop of main_interactive goes round: execute_string returned, or
\* raised a compile error, which is printed
Prompt ==
    /\ pc = "idle"
    /\ call.op = "main_interactive"
    /\ raised = NoExc \/ ExceptClause(raised) = "continue"
    /\ pc' = "prompt"
    /\ UNCHANGED <<interp, this_line, raised, output, call, src, endLen, first,
                   jumped, util>>

\* main_interactive is over: a runtime error broke the loop, another
\* exception left the function, or input() raised EOFError
Terminate ==
    /\ call.op = "main_interactive"
    /\ \/ pc = "prompt"
       \/ pc = "idle" /\ raised # NoExc /\ ExceptClause(raised) # "continue"
    /\ pc' = "ended"
    /\ UNCHANGED <<interp, this_line, raised, output, call, src, endLen, first,
                   jumped, util>>

NextMain ==
    \/ \E i \in 1 .. Len(ScriptSeq) : MainScript(i)
    \/ ScriptDone
    \/ MainInteractive
    \/ \E i \in 1 .. Len(LineSeq) : ReadLine(i)
    \/ Prompt
    \/ Terminate
    \/ StepAdvance
    \/ Return
    \/ ExecNone
    \/ ExecLet
    \/ ExecIf
    \/ \E value \in MainInputs : ExecInput(value)
    \/ ExecPrint

SpecMain == InitMain /\ [][NextMain]_vars

(***************************************************************************)
(* The utility functions, called on their own: quoted_split_first,          *)
(* quoted_split and check_name_legal applied to one argument.               *)
(***************************************************************************)

\* the longest text given to a utility function
MaxLen == 4

\* the characters of those texts: a letter, a digit, the separator, the
\* quote, an operator, a space and a form feed
UtilChars == {"a", "1", ",", "\"", "+", " ", "\f"}

UtilTexts == UNION {[1 .. k -> UtilChars] : k \in 0 .. MaxLen}

\* the separators: one character, as in PrintStatement.parse, and several,
\* as the goto of IfStatement.parse
Seps == {<<",">>, <<"a", "a">>}

InitUtils ==
    /\ statements = <<>>
    /\ next_line = 0
    /\ labels = <<>>
    /\ context = <<>>
    /\ pc = "utils"
    /\ this_line = -1
    /\ raised = NoExc
    /\ output = <<>>
    /\ call = [op |-> "none", text |-> 0, keep_empty |-> TRUE, from_line |-> -1,
               has_from |-> FALSE]
    /\ src = <<>>
    /\ endLen = -1
    /\ first = FALSE
    /\ jumped = FALSE
    /\ arg \in [string : UtilTexts, sep : Seps]
    /\ ret = NoCall

\* quoted_split_first(string, sep, '"') is called and returns
CallQuotedSplitFirst ==
    /\ ret = NoCall
    /\ ret' = [f |-> "quoted_split_first",
               r |-> quoted_split_first(arg.string, arg.sep, Quote)]
    /\ UNCHANGED <<interp, pc, this_line, raised, output, call, src, endLen,
                   first, jumped, arg>>

\* quoted_split(string, sep, '"') is called and returns
CallQuotedSplit ==
    /\ ret = NoCall
    /\ ret' = [f |-> "quoted_split", r |-> quoted_split(arg.string, arg.sep, Quote)]
    /\ UNCHANGED <<interp, pc, this_line, raised, output, call, src, endLen,
                   first, jumped, arg>>

\* check_name_legal(line, string) is called and returns or raises
CallCheckNameLegal ==
    /\ ret = NoCall
    /\ ret' = [f |-> "check_name_legal", r |-> check_name_legal(arg.string)]
    /\ UNCHANGED <<interp, pc, this_line, raised, output, call, src, endLen,
                   first, jumped, arg>>

NextUtils ==
    \/ CallQuotedSplitFirst
    \/ CallQuotedSplit
    \/ CallCheckNameLegal

SpecUtils == InitUtils /\ [][NextUtils]_vars

(***************************************************************************)
(* Expression.parse, called on its own on one expression text.              *)
(***************************************************************************)

\* the longest expression text drawn from ExprChars
MaxExprLen == 4

\* a digit, a letter, the decimal point, the quote and operator characters
ExprChars == {"1", "a", ".", "\"", "+", "-", "<", "="}

\* a <= b
Expr1 == <<"a", " ", "<", "=", " ", "b">>

\* 1 - 2 + 3
Expr2 == <<"1", " ", "-", " ", "2", " ", "+", " ", "3">>

\* "a" + "b"
Expr3 == <<"\"", "a", "\"", " ", "+", " ", "\"", "b", "\"">>

Expr4 == <<"i", "n", "f">>

Expr5 == <<"n", "a", "n">>

Expr6 == <<"1", "e", "3">>

\* 1.5 between spaces
Expr7 == <<" ", "1", ".", "5", " ">>

\* a < 1 - a
Expr8 == <<"a", " ", "<", " ", "1", " ", "-", " ", "a">>

ExprTexts ==
    UNION {[1 .. k -> ExprChars] : k \in 0 .. MaxExprLen}
        \cup {Expr1, Expr2, Expr3, Expr4, Expr5, Expr6, Expr7, Expr8}

InitExpr ==
    /\ statements = <<>>
    /\ next_line = 0
    /\ labels = <<>>
    /\ context = <<>>
    /\ pc = "utils"
    /\ this_line = -1
    /\ raised = NoExc
    /\ output = <<>>
    /\ call = [op |-> "none", text |-> 0, keep_empty |-> TRUE, from_line |-> -1,
               has_from |-> FALSE]
    /\ src = <<>>
    /\ endLen = -1
    /\ first = FALSE
    /\ jumped = FALSE
    /\ arg \in [string : ExprTexts]
    /\ ret = NoCall

\* Expression.parse(line, string) is called and returns or raises
CallExpressionParse ==
    /\ ret = NoCall
    /\ ret' = [f |-> "Expression_parse", r |-> Expression_parse(arg.string)]
    /\ UNCHANGED <<interp, pc, this_line, raised, output, call, src, endLen,
                   first, jumped, arg>>

NextExpr == CallExpressionParse

SpecExpr == InitExpr /\ [][NextExpr]_vars

(***************************************************************************)
(* Properties                                                              *)
(***************************************************************************)

\* the step is a call of resume or a step of its loop
ResumeStep == pc # "idle" \/ (pc' = "loop" /\ call'.op = "resume")

\* the step is the execution of the statement at this_line, and it returned
ExecReturned == pc = "exec" /\ pc' = "loop"

\* the statement at this_line is an if-goto whose condition is non-zero
GotoTaken ==
    /\ Current.k = "if"
    /\ Eval(Current.cond_expr, context).err = "none"
    /\ NonZero(Eval(Current.cond_expr, context).v)

\* s is a prefix of t
IsPrefix(s, t) == Len(s) <= Len(t) /\ SubSeq(t, 1, Len(s)) = s

\* C1, on every state: while a statement executes, it is the statement of a
\* line i of the program and the cursor is already i + 1
C1_AdvancedFirst ==
    pc = "exec" =>
        /\ 0 <= this_line /\ this_line < Len(statements)
        /\ next_line = this_line + 1

\* C1, on every step: a step takes the line at the cursor and advances the
\* cursor before anything is executed; a statement that returns leaves the
\* cursor at the line of its target if it is an if-goto whose condition is
\* non-zero, and at i + 1 otherwise
C1_StepAction ==
    /\ (pc = "loop" /\ pc' = "exec") =>
           /\ this_line' = next_line
           /\ next_line' = next_line + 1
           /\ UNCHANGED <<statements, labels, context, output>>
    /\ ExecReturned =>
           next_line' = IF GotoTaken THEN labels[Current.target] ELSE this_line + 1

\* C1: the step protocol of resume: advance first, then execute; a taken goto
\* overrides the advanced cursor, even with its own line, and nothing else does
C1_StepProtocol == [](C1_AdvancedFirst) /\ [][C1_StepAction]_vars

\* C1 witness: an if-goto at line i has just sent the cursor to line i itself
C1_Witness ==
    /\ pc = "loop"
    /\ jumped
    /\ this_line >= 0
    /\ statements[this_line + 1].k = "if"
    /\ next_line = this_line

\* the last call raised a runtime error to its caller
RuntimeErrorRaised == raised.kind \notin {"none", "TinyLangSyntaxError"}

\* C2: once a statement at line i has raised, resume is over (no statement is
\* executed after it), the caller has the error, and the cursor is i + 1
C2_ErrorStopsRun ==
    RuntimeErrorRaised =>
        /\ pc = "idle"
        /\ call.op \in {"resume", "execute_string"}
        /\ next_line = this_line + 1
        /\ IsTinyLangRuntimeError(raised.kind) => raised.line = this_line

\* C2 witness: a statement has raised with a line after it left unexecuted
C2_Witness ==
    /\ pc = "idle"
    /\ raised.kind = "UndefinedVariableError"
    /\ this_line + 1 < Len(statements)
    /\ next_line = this_line + 1

\* C3, on every state: a resume() that follows a pause at the end of the
\* program and the loads made since starts at the length the program had at
\* the pause, and executes a line below it only after taking a goto
C3_StartsAtNewLines ==
    /\ (pc = "loop" /\ first /\ endLen >= 0) => next_line = endLen
    /\ (pc = "exec" /\ endLen >= 0 /\ this_line < endLen) => jumped

\* C3, on every step: no call changes the context before its first statement
\* executes, and load_string leaves the cursor alone
C3_LoadKeepsContext ==
    pc = "idle" =>
        /\ context' = context
        /\ call'.op \in {"load_string", "execute_string"} => next_line' = next_line

\* C3: after a pause at the end of the program, load_string and resume() go on
\* with the first new line, on the context as the pause left it
C3_ResumeAfterLoad == [](C3_StartsAtNewLines) /\ [][C3_LoadKeepsContext]_vars

\* C3 witness: after a pause at the end of a program of one line that set n, a
\* line was loaded, and resume() is executing it first, with n as it was
C3_Witness ==
    /\ pc = "exec"
    /\ endLen = 1
    /\ this_line = endLen
    /\ ~jumped
    /\ <<"n">> \in DOMAIN context
    /\ Current.k = "if"

\* C4, on every step: the program keeps its slots and only grows at its end,
\* no label name leaves the label table, and resume changes neither
C4_AppendOnlyAction ==
    /\ IsPrefix(statements, statements')
    /\ DOMAIN labels \subseteq DOMAIN labels'
    /\ ResumeStep => (statements' = statements /\ labels' = labels)

\* C4: the program is append-only, labels are never removed, and resume
\* changes neither the program nor the label table
C4_AppendOnly == [][C4_AppendOnlyAction]_vars

\* C4 witness: the program holds lines of two loads, the second load having
\* put its first line behind the lines of the first
C4_Witness ==
    /\ Len(src) >= 2
    /\ src[1].lineno = 0
    /\ src[Len(src)].lineno = 0
    /\ labels # <<>>
    /\ call.op = "resume"

\* the step is a call that loads a text
LoadStep == pc = "idle" /\ call'.op \in {"load_string", "execute_string"}

\* the first line of the parsed text that does not parse
FailAt(parsed) ==
    CHOOSE j \in 1 .. Len(parsed) :
        ~parsed[j].ok /\ \A k \in 1 .. j - 1 : parsed[k].ok

\* a line without label and without statement
Blank(p) == ~p.hasLabel /\ p.statement = None

\* the lines before line f that get a slot
Kept(parsed, keep_empty, f) ==
    {k \in 1 .. f - 1 : keep_empty \/ ~Blank(parsed[k])}

\* the position of line k among the lines that get a slot
Rank(kept, k) == Cardinality({m \in kept : m <= k})

\* the names the lines of kept define
Defined(parsed, kept) == {parsed[k].label : k \in {m \in kept : parsed[m].hasLabel}}

\* the step appended one slot for each line of kept, in order, and registered
\* their labels at their slots, and did nothing else to program and labels
AppendedLines(parsed, kept) ==
    /\ IsPrefix(statements, statements')
    /\ Len(statements') = Len(statements) + Cardinality(kept)
    /\ \A k \in kept :
           /\ statements'[Len(statements) + Rank(kept, k)] = parsed[k].statement
           /\ parsed[k].hasLabel => labels'[parsed[k].label] >= Len(statements)
    /\ DOMAIN labels' = DOMAIN labels \cup Defined(parsed, kept)
    /\ \A name \in DOMAIN labels \ Defined(parsed, kept) : labels'[name] = labels[name]

\* C5, on every step: a load raises exactly when a line of its text does not
\* parse; it then keeps the slots and labels of the lines before that line and
\* of them only, reports the length of the program as the line of the error,
\* and runs nothing
C5_FailedLoadAction ==
    LoadStep =>
        /\ (raised'.kind = "TinyLangSyntaxError") =
               (\E j \in 1 .. Len(ParsedTexts[call'.text]) : ~ParsedTexts[call'.text][j].ok)
        /\ raised'.kind = "TinyLangSyntaxError" =>
               /\ AppendedLines(ParsedTexts[call'.text],
                      Kept(ParsedTexts[call'.text], call'.keep_empty,
                           FailAt(ParsedTexts[call'.text])))
               /\ raised'.line = Len(statements')
               /\ pc' = "idle"
               /\ UNCHANGED <<next_line, context>>

\* C5: a load that fails to parse a line keeps what the earlier lines of the
\* same call appended, and its error carries the length of the program
C5_FailedLoad == [][C5_FailedLoadAction]_vars

\* C5 witness: a load failed at the second of three lines; the slot and the
\* label of the first line are there, the label of the third line is not, and
\* the error says line 1
C5_Witness ==
    /\ pc = "idle"
    /\ raised.kind = "TinyLangSyntaxError"
    /\ TextSeq[call.text] = Text7
    /\ Len(statements) = 1
    /\ raised.line = 1
    /\ statements[1].k = "let"
    /\ DOMAIN labels = {<<"a">>}
    /\ labels[<<"a">>] = 0

\* C6, on every step: a load that parses its text appends one slot per line
\* when empty lines are kept, the slot of line j of the text being slot j of
\* an empty interpreter; otherwise it appends one slot per line that has a
\* label or a statement, and nothing for the others
C6_KeepEmptyAction ==
    (LoadStep /\ raised'.kind # "TinyLangSyntaxError") =>
        /\ AppendedLines(ParsedTexts[call'.text],
               Kept(ParsedTexts[call'.text], call'.keep_empty,
                    Len(ParsedTexts[call'.text]) + 1))
        /\ call'.keep_empty =>
               /\ Len(statements') = Len(statements) + Len(ParsedTexts[call'.text])
               /\ statements = <<>> =>
                      \A j \in 1 .. Len(statements') :
                          /\ statements'[j] = ParsedTexts[call'.text][j].statement
                          /\ src'[j].lineno = j - 1
        /\ ~call'.keep_empty =>
               /\ \A j \in 1 .. Len(statements') - Len(statements) :
                      ~Blank(ParsedTexts[call'.text][src'[Len(statements) + j].lineno + 1])
               /\ (\A j \in 1 .. Len(ParsedTexts[call'.text]) :
                       Blank(ParsedTexts[call'.text][j])) =>
                      (statements' = statements /\ labels' = labels)

\* C6: keep_empty decides whether the lines without label and statement get
\* a slot; a line with a label alone always gets one
C6_KeepEmpty == [][C6_KeepEmptyAction]_vars

\* C6 witness: a text of a label-only line, a blank line and a statement was
\* loaded without its empty lines: two slots, the first one empty, the second
\* one from line 2 of the text
C6_Witness ==
    /\ pc = "idle"
    /\ call.op = "load_string"
    /\ TextSeq[call.text] = Text8
    /\ ~call.keep_empty
    /\ Len(statements) = 2
    /\ statements[1] = None
    /\ src[1].lineno = 0
    /\ src[2].lineno = 2

\* the line of the last slot that defines the label name
LastDefinition(name) ==
    CHOOSE line \in 0 .. Len(src) - 1 :
        /\ src[line + 1].label = name
        /\ \A later \in line + 1 .. Len(src) - 1 : src[later + 1].label # name

\* C7, on every state: the label table holds the defined names, each with the
\* line of its last definition
C7_LastWins ==
    /\ \A i \in 1 .. Len(src) : src[i].label # NoLabel => src[i].label \in DOMAIN labels
    /\ \A name \in DOMAIN labels :
           /\ \E i \in 1 .. Len(src) : src[i].label = name
           /\ labels[name] = LastDefinition(name)

\* C7, on every step: a goto that is taken sets the cursor to the line of
\* the last definition of its target
C7_GotoAction ==
    (ExecReturned /\ GotoTaken) => next_line' = LastDefinition(Current.target)

\* C7: defining a label again overwrites its line, and the gotos executed
\* from then on go to the later line
C7_Redefinition == [](C7_LastWins) /\ [][C7_GotoAction]_vars

\* C7 witness: a goto has just gone to the second definition of its target
C7_Witness ==
    /\ pc = "loop"
    /\ jumped
    /\ this_line >= 0
    /\ statements[this_line + 1].k = "if"
    /\ statements[this_line + 1].target \in DOMAIN labels
    /\ next_line = labels[statements[this_line + 1].target]
    /\ next_line # this_line + 1
    /\ \E i \in 1 .. next_line : src[i].label = statements[this_line + 1].target

\* the string has a ':' outside the quotes with nothing but blanks before it
EmptyLabelLine(string) ==
    /\ quoted_split_first(string, <<":">>, Quote).found
    /\ Strip(quoted_split_first(string, <<":">>, Quote).head) = <<>>

\* C8 as the specification states it: a load of a text whose lines parse but
\* for an empty label raises no error, so that after a load of such a text
\* no syntax error is pending
C8_EmptyLabelAccepted ==
    (/\ pc = "idle"
     /\ call.op = "load_string"
     /\ \E j \in 1 .. Len(SplitLines(TextSeq[call.text])) :
            EmptyLabelLine(SplitLines(TextSeq[call.text])[j])
     /\ \A j \in 1 .. Len(SplitLines(TextSeq[call.text])) :
            \/ ParsedTexts[call.text][j].ok
            \/ EmptyLabelLine(SplitLines(TextSeq[call.text])[j]))
    => raised.kind = "none"

RECURSIVE FirstEval(_)

\* the first operand an evaluation of e reaches that is not a literal, or a
\* literal if there is none
FirstEval(e) ==
    IF e.k = "op"
    THEN IF e.e1.k = "val" THEN FirstEval(e.e2) ELSE FirstEval(e.e1)
    ELSE e

\* the expression a statement evaluates first
FirstExpr(st) ==
    IF st.k = "let" THEN st.value_expr
    ELSE IF st.k = "if" THEN st.cond_expr
    ELSE IF st.k = "print" /\ Len(st.expr_list) > 0 THEN st.expr_list[1]
    ELSE NoExpr

\* the statement at this_line starts with the evaluation of a reference to
\* a name that is not in the context
HeadRefMissing ==
    /\ FirstEval(FirstExpr(Current)).k = "ref"
    /\ FirstEval(FirstExpr(Current)).name \notin DOMAIN context

\* C9, on every state: an UndefinedVariable error carries a name that the
\* context does not have and the index of the statement that raised it, which
\* is the source line of that statement when the program was loaded with its
\* empty lines into an empty interpreter
C9_ErrorLine ==
    raised.kind = "UndefinedVariableError" =>
        /\ raised.line = this_line
        /\ raised.name \notin DOMAIN context
        /\ src[this_line + 1].fresh => raised.line = src[this_line + 1].lineno

\* C9, on every step: a statement whose evaluation starts with a reference
\* to an absent name raises UndefinedVariable for that name at its own index
C9_RaiseAction ==
    (pc = "exec" /\ HeadRefMissing) =>
        /\ raised' = Exc("UndefinedVariableError", this_line,
                         FirstEval(FirstExpr(Current)).name)
        /\ pc' = "idle"

\* C9: the evaluation of a reference to an absent name raises
\* UndefinedVariable with the index of the statement as its line
C9_UndefinedVariable == [](C9_ErrorLine) /\ [][C9_RaiseAction]_vars

\* C9 witness: the statement of source line 1, behind a kept empty line 0,
\* has raised UndefinedVariable with line 1
C9_Witness ==
    /\ pc = "idle"
    /\ raised.kind = "UndefinedVariableError"
    /\ raised.line = 1
    /\ this_line = 1
    /\ src[2].fresh
    /\ src[2].lineno = 1
    /\ statements[1] = None

\* the condition of the if-goto at this_line evaluates to zero
CondZero ==
    /\ Eval(Current.cond_expr, context).err = "none"
    /\ ~NonZero(Eval(Current.cond_expr, context).v)

\* C10, on every step: an if-goto raises IllegalGotoLabel exactly when its
\* condition is non-zero and the label table of that moment lacks its target;
\* with the target there it jumps, wherever and whenever the label was
\* loaded; with a zero condition it raises nothing, whatever the target
C10_GotoAction ==
    (pc = "exec" /\ Current.k = "if") =>
        /\ (raised'.kind = "IllegalGotoLabelError") =
               (GotoTaken /\ Current.target \notin DOMAIN labels)
        /\ raised'.kind = "IllegalGotoLabelError" =>
               /\ raised' = Exc("IllegalGotoLabelError", this_line, Current.target)
               /\ pc' = "idle"
        /\ (GotoTaken /\ Current.target \in DOMAIN labels) =>
               /\ raised' = NoExc
               /\ pc' = "loop"
               /\ next_line' = labels[Current.target]
        /\ CondZero =>
               /\ raised' = NoExc
               /\ pc' = "loop"
               /\ next_line' = this_line + 1

\* C10: the target of a goto is looked up when the goto executes, and only
\* if the condition is non-zero
C10_IllegalGoto == [][C10_GotoAction]_vars

\* C10 witness: a goto has just gone forward, over a line, to a label that a
\* later line of its own text defines
C10_Witness ==
    /\ pc = "loop"
    /\ jumped
    /\ this_line >= 0
    /\ statements[this_line + 1].k = "if"
    /\ next_line > this_line + 1
    /\ next_line < Len(statements)
    /\ src[next_line + 1].label = statements[this_line + 1].target
    /\ src[next_line + 1].base = src[this_line + 1].base

\* C11 as the specification states it: whatever a statement raises reaches
\* the caller of resume as a TinyLangRuntimeError (UnknownRuntimeError for
\* an unexpected fault) that carries the line of the statement
C11_FaultsWrapped ==
    (pc = "idle" /\ RuntimeErrorRaised) =>
        /\ IsTinyLangRuntimeError(raised.kind)
        /\ raised.line = this_line

\* the statement at this_line is a let of a quotient of two Numbers, the
\* right one being zero
DividesByZero ==
    /\ Current.k = "let"
    /\ Current.value_expr.k = "op"
    /\ Current.value_expr.op = "/"
    /\ Eval(Current.value_expr.e1, context).err = "none"
    /\ Eval(Current.value_expr.e2, context).err = "none"
    /\ IsNumber(Eval(Current.value_expr.e1, context).v)
    /\ IsNumber(Eval(Current.value_expr.e2, context).v)
    /\ IsZero(Eval(Current.value_expr.e2, context).v)

\* C12 as the specification states it, on every step: a let of a quotient
\* whose right operand is the Number zero raises nothing, stores a Number
\* under its name, and the run goes on with the following line
C12_DivisionStep ==
    (pc = "exec" /\ DividesByZero) =>
        /\ raised' = NoExc
        /\ pc' = "loop"
        /\ next_line' = this_line + 1
        /\ Current.name \in DOMAIN context'
        /\ IsNumber(context'[Current.name])

\* C12 as the specification states it: division by the Number zero yields a
\* Number and raises no error
C12_DivisionByZero == [][C12_DivisionStep]_vars

\* what the step has sent to the output sink
Sent == SubSeq(output', Len(output) + 1, Len(output'))

\* the print statement st, executed on the context, has sent the values of
\* its k expressions in order, a single space between two of them, and one
\* newline behind them: 2k objects, or the newline alone for k = 0
SentByPrint(st, sent) ==
    /\ Len(sent) = IF Len(st.expr_list) = 0 THEN 1 ELSE 2 * Len(st.expr_list)
    /\ \A j \in 1 .. Len(st.expr_list) :
           /\ Eval(st.expr_list[j], context).err = "none"
           /\ sent[2 * j - 1] = Eval(st.expr_list[j], context).v
    /\ \A j \in 1 .. Len(st.expr_list) - 1 : sent[2 * j] = Text(<<" ">>)
    /\ sent[Len(sent)] = Text(<<"\n">>)

\* C13, on every step: a print statement that returns has sent value 1, a
\* space, value 2, ..., value k and then one newline to the output sink, and
\* nothing else; no other statement sends anything
C13_PrintStep ==
    /\ (ExecReturned /\ Current.k = "print") =>
           /\ IsPrefix(output, output')
           /\ SentByPrint(Current, Sent)
    /\ (pc = "exec" /\ Current.k # "print") => output' = output

\* C13: print sends its k values separated by k - 1 single spaces and
\* followed by exactly one newline; with k = 0 the newline alone
C13_PrintOrder == [][C13_PrintStep]_vars

\* C13 witness: a print of two expressions has returned, having sent a Text,
\* a space, a Number and a newline
C13_Witness ==
    /\ pc = "loop"
    /\ this_line >= 0
    /\ statements[this_line + 1].k = "print"
    /\ Len(statements[this_line + 1].expr_list) = 2
    /\ Len(output) = 4
    /\ output[1] = Text(<<"a">>)
    /\ output[2] = Text(<<" ">>)
    /\ IsNumber(output[3])
    /\ output[4] = Text(<<"\n">>)

\* main_script has run the script text to its end without an error
ScriptOver(text) ==
    /\ pc = "ended"
    /\ call.op = "main_script"
    /\ ScriptSeq[call.text] = text
    /\ raised = NoExc

\* C14 as the specification states it: the script let x = 1 / let y = x + 2 /
\* print y, run on a new interpreter, leaves x = 1 and y = 3 in the context
\* and the characters "3" and newline on the output
C14_PrintsThree ==
    ScriptOver(Text13) =>
        /\ context = (<<"x">> :> Int2Num(1)) @@ (<<"y">> :> Int2Num(3))
        /\ Rendered(output) = <<"3", "\n">>

\* C15 as the specification states it: once the countdown script is over,
\* its first line having read 1, 2 or 3 into n, the cursor is at the length
\* of the program, n is 0, and the one print has put "0" and a newline on
\* the output
C15_Countdown ==
    ScriptOver(Text14) =>
        /\ next_line = Len(statements)
        /\ context = (<<"n">> :> Int2Num(0))
        /\ Len(output) = 2
        /\ Rendered(output) = <<"0", "\n">>

\* execute_string has raised a compile error inside main_interactive
CompileErrorCaught ==
    /\ pc = "idle"
    /\ call.op = "main_interactive"
    /\ ExceptClause(raised) = "continue"

\* execute_string has raised a runtime error inside main_interactive
RuntimeErrorCaught ==
    /\ pc = "idle"
    /\ call.op = "main_interactive"
    /\ IsTinyLangRuntimeError(raised.kind)

\* the steps of C16: an input line that raises a compile error leaves the
\* program, the labels, the context and the cursor as they were, and the
\* loop then prompts again; after a runtime error the only step ends the
\* session, and nothing happens after the end
C16_LoopStep ==
    /\ (pc = "prompt" /\ CompileErrorCaught') => interp' = interp
    /\ CompileErrorCaught => pc' = "prompt" /\ interp' = interp
    /\ RuntimeErrorCaught => pc' = "ended" /\ interp' = interp /\ output' = output
    /\ pc = "ended" => UNCHANGED vars

\* C16 as the specification states it: in main_interactive a compile error
\* in an input line is survived with program, labels, context and cursor
\* unchanged, and a runtime error ends the session with no further line read
\* or executed
C16_InteractiveErrors == [][C16_LoopStep]_vars

\* the context after the step holds what it held before, except at name
SameExceptAt(name) ==
    /\ DOMAIN context' = DOMAIN context \cup {name}
    /\ \A other \in DOMAIN context : other # name => context'[other] = context[other]

\* the steps of C17: the context changes only in a step of a let or an input
\* statement that raises nothing, and only at the name of that statement; a
\* step that loads text or that raises leaves it as it is
C17_ContextStep ==
    /\ context' # context =>
           /\ pc = "exec"
           /\ Current.k \in {"let", "input"}
           /\ raised' = NoExc
           /\ SameExceptAt(Current.name)
    /\ LoadStep => context' = context
    /\ (pc = "exec" /\ raised' # NoExc) => context' = context

\* C17: only a let or input statement that completes changes the Context, at
\* its own name only; print, if, empty slots, loads and raising statements
\* leave it unchanged
C17_ContextFrame == [][C17_ContextStep]_vars

\* an input statement of a later load has raised IllegalInputError while the
\* context still holds what an earlier statement stored
C17_Witness ==
    /\ pc = "idle"
    /\ raised.kind = "IllegalInputError"
    /\ context # <<>>
    /\ src[raised.line + 1].base > 0

\* the number of quote characters of string before index p
QuotesBefore(string, p) ==
    Cardinality({i \in 1 .. p : <<string[i]>> = Quote})

\* sep occurs in string at index p, outside every quoted span: the quotes
\* before it pair up
OutsideAt(string, sep, p) ==
    /\ p + Len(sep) <= Len(string)
    /\ Slice(string, p, p + Len(sep)) = sep
    /\ QuotesBefore(string, p) % 2 = 0

\* the index of the first separator outside the quoted spans, or -1
FirstOutside(string, sep) ==
    MinOr({p \in 0 .. Len(string) : OutsideAt(string, sep, p)}, -1)

\* what C18 requires of the result r for a string whose first separator
\* outside the quotes is at p
SplitsAt(r, string, sep, p) ==
    IF p = -1 THEN ~r.found /\ r.tail = string
    ELSE /\ r.found
         /\ r.head = Slice(string, 0, p)
         /\ r.head \o sep \o r.tail = string

\* C18: quoted_split_first splits at the first separator outside every
\* quoted span, head + sep + tail being the text; a separator after an
\* unclosed quote does not count, and without a separator that counts the
\* result is (None, text)
C18_SplitFirst ==
    ret.f = "quoted_split_first" =>
        SplitsAt(ret.r, arg.string, arg.sep, FirstOutside(arg.string, arg.sep))

\* quoted_split_first has passed over a quoted separator and split at a
\* later one
C18_Witness ==
    /\ ret.f = "quoted_split_first"
    /\ ret.r.found
    /\ Find(ret.r.head, arg.sep, 0) # -1

RECURSIVE Join(_, _)

\* sep.join(segments) for a non-empty list
Join(segments, sep) ==
    IF Len(segments) = 1 THEN segments[1]
    ELSE segments[1] \o sep \o Join(Tail(segments), sep)

\* the index in Join(segments, sep) where segment j + 1 begins
StartOf(segments, sep, j) ==
    IF j = 0 THEN 0 ELSE Len(Join(SubSeq(segments, 1, j), sep)) + Len(sep)

\* no separator of the segment beginning at index start of string lies
\* outside the quoted spans of string
Uncut(string, sep, start, segment) ==
    \A p \in 0 .. Len(segment) :
        p + Len(sep) <= Len(segment) => ~OutsideAt(string, sep, start + p)

\* C19: joining the segments of quoted_split with sep gives the text back,
\* every cut is at a separator outside the quoted spans (never between an
\* opening quote and its closing quote, nor after an unmatched one), no such
\* separator is left inside a segment, and closed is false exactly when the
\* number of quote characters is odd
C19_QuotedSplit ==
    ret.f = "quoted_split" =>
        /\ Join(ret.r.segments, arg.sep) = arg.string
        /\ \A j \in 1 .. Len(ret.r.segments) - 1 :
               OutsideAt(arg.string, arg.sep,
                         StartOf(ret.r.segments, arg.sep, j) - Len(arg.sep))
        /\ \A j \in 1 .. Len(ret.r.segments) :
               Uncut(arg.string, arg.sep, StartOf(ret.r.segments, arg.sep, j - 1),
                     ret.r.segments[j])
        /\ ret.r.closed = (QuotesBefore(arg.string, Len(arg.string)) % 2 = 0)

\* quoted_split has cut a text in two and kept a quoted separator inside a
\* segment
C19_Witness ==
    /\ ret.f = "quoted_split"
    /\ Len(ret.r.segments) = 2
    /\ \E j \in 1 .. 2 : Find(ret.r.segments[j], arg.sep, 0) # -1

\* the operator symbols the specification lists
OperatorSymbols == {"+", "-", "*", "/", "<", "=", ">", "!"}

\* the names C20 says are rejected, name being trimmed
MustReject(name) ==
    \/ name = <<>>
    \/ name[1] \in Digits
    \/ Chars(name) \cap Whitespace # {}
    \/ Chars(name) \cap {",", ":", "\""} # {}
    \/ Chars(name) \cap OperatorSymbols # {}

\* C20 as the specification states it: check_name_legal returns an accepted
\* name unchanged when given its own result, and it rejects every name that,
\* trimmed, is empty, begins with a digit, or contains a whitespace
\* character, one of , : ", or an operator symbol
C20_NameLegal ==
    ret.f = "check_name_legal" =>
        /\ ret.r.ok => check_name_legal(ret.r.name) = ret.r
        /\ MustReject(Strip(arg.string)) => ~ret.r.ok

\* the operator symbols in the order C21 gives them
CandidateOrder ==
    << <<"<", "=">>, <<">", "=">>, <<"=", "=">>, <<"!", "=">>,
       <<"+">>, <<"-">>, <<"*">>, <<"/">>, <<"<">>, <<">">> >>

\* the first symbol of CandidateOrder that occurs in string; there is one
\* in every string parsed as an operation
Chosen(string) ==
    CandidateOrder[MinOr({i \in 1 .. Len(CandidateOrder) :
                              Find(string, CandidateOrder[i], 0) # -1}, 1)]

\* the operation e is sym applied to the texts of string before and after
\* the earliest occurrence of sym
SplitBy(e, string, sym) ==
    /\ Find(string, sym, 0) # -1
    /\ e.op = OpName(sym)
    /\ ParseOk(e.e1) = Expression_parse(Slice(string, 0, Find(string, sym, 0)))
    /\ ParseOk(e.e2) =
           Expression_parse(SliceFrom(string, Find(string, sym, 0) + Len(sym)))

\* Expression.parse has returned an operation
ParsedAsOperation == ret.f = "Expression_parse" /\ ret.r.ok /\ ret.r.e.k = "op"

\* C21: an expression text parsed as a binary operation is split at the
\* earliest occurrence of the first symbol, in the order <= >= == != + - * /
\* < >, that occurs in the raw text, both sides being parsed as expressions
C21_OperatorChoice ==
    ParsedAsOperation => SplitBy(ret.r.e, arg.string, Chosen(arg.string))

\* 1 - 2 + 3 has been parsed as the sum of 1 - 2 and 3, the minus sign being
\* further left than the plus sign
C21_Witness ==
    /\ ParsedAsOperation
    /\ arg.string = Expr2
    /\ ret.r.e.op = "+"
    /\ ret.r.e.e1.k = "op"
    /\ ret.r.e.e1.op = "-"
    /\ ret.r.e.e2 = [k |-> "val", v |-> Int2Num(3)]

\* the text s starts and ends with the quote character
QuoteDelimited(s) == s # <<>> /\ <<s[1]>> = Quote /\ <<s[Len(s)]>> = Quote

IsPoint(c) == c = "."

\* decimal digits with at most one decimal point
DecimalDigits(s) ==
    /\ Chars(s) \subseteq Digits \cup {"."}
    /\ Chars(s) \cap Digits # {}
    /\ Len(SelectSeq(s, IsPoint)) <= 1

\* Expression.parse has returned a literal
ParsedAsLiteral == ret.f = "Expression_parse" /\ ret.r.ok /\ ret.r.e.k = "val"

\* C22 as the specification states it: a text that is not quote-delimited is
\* a Number literal exactly when it is decimal digits with at most one
\* decimal point, and inf and nan are parsed as References
C22_NumberLiterals ==
    (ret.f = "Expression_parse" /\ ~QuoteDelimited(Strip(arg.string))) =>
        /\ ParsedAsLiteral <=> DecimalDigits(Strip(arg.string))
        /\ arg.string \in {Expr4, Expr5} =>
               ret.r = ParseOk([k |-> "ref", name |-> arg.string])

\* v is s without the quote characters that surround it
Unquoted(s, v) ==
    \E a, b \in 0 .. Len(s) :
        /\ a + b <= Len(s)
        /\ v = SubSeq(s, a + 1, Len(s) - b)
        /\ \A i \in 1 .. a : <<s[i]>> = Quote
        /\ \A i \in (Len(s) - b + 1) .. Len(s) : <<s[i]>> = Quote
        /\ v = <<>> \/ (<<v[1]>> # Quote /\ <<v[Len(v)]>> # Quote)

\* C23: a trimmed expression text that starts and ends with the quote
\* character is parsed as one Text literal, the text without its surrounding
\* quotes, and never as an operation, whatever operator symbols it holds
C23_TextLiteral ==
    (ret.f = "Expression_parse" /\ QuoteDelimited(Strip(arg.string))) =>
        /\ ParsedAsLiteral
        /\ ret.r.e.v.t = "text"
        /\ Unquoted(Strip(arg.string), ret.r.e.v.s)

\* "a" + "b", whose plus sign is outside the quoted spans, has been parsed
\* as one Text literal
C23_Witness ==
    /\ ParsedAsLiteral
    /\ arg.string = Expr3
    /\ OutsideAt(arg.string, <<"+">>, 4)
    /\ ret.r.e.v = Text(<<"a", "\"", " ", "+", " ", "\"", "b">>)

\* resume, called by itself or by execute_string, has returned without raising
ReturnedNormally ==
    /\ pc = "idle"
    /\ raised = NoExc
    /\ call.op \in {"resume", "execute_string"}

\* C24: as long as resume is never given a from_line, every value of the
\* label table is the index of a slot of the program, the cursor is between
\* 0 and the length of the program, and it is that length whenever resume
\* has returned normally
C24_CursorInRange ==
    /\ \A name \in DOMAIN labels : labels[name] \in 0 .. Len(statements) - 1
    /\ next_line \in 0 .. Len(statements)
    /\ ReturnedNormally => next_line = Len(statements)

\* resume has returned normally after a goto to the label of the last slot
C24_Witness ==
    /\ ReturnedNormally
    /\ jumped
    /\ Len(statements) >= 2
    /\ \E name \in DOMAIN labels : labels[name] = Len(statements) - 1

\* the last call was an execute_string that failed to parse a line
FailedExecute ==
    /\ pc = "idle"
    /\ call.op = "execute_string"
    /\ raised.kind = "TinyLangSyntaxError"

\* the number of slots the failed execute_string left behind
Leftover ==
    Cardinality(Kept(ParsedTexts[call.text], call.keep_empty,
                     FailAt(ParsedTexts[call.text])))

\* the steps of C25: an execute_string that fails to parse a line runs
\* nothing and keeps cursor, context and output, the lines before the failing
\* one staying appended; the next call that runs, execute_string or resume(),
\* starts at the unchanged cursor, and when the cursor was at the end of the
\* program before the failed call that is the first leftover slot, below
\* every slot loaded later; the first statement run is the one at the cursor
C25_LeftoverStep ==
    /\ (LoadStep /\ call'.op = "execute_string" /\ raised' # NoExc) =>
           /\ pc' = "idle"
           /\ UNCHANGED <<next_line, context, output>>
           /\ AppendedLines(ParsedTexts[call'.text],
                  Kept(ParsedTexts[call'.text], call'.keep_empty,
                       FailAt(ParsedTexts[call'.text])))
    /\ (FailedExecute /\ pc' = "loop" /\ ~call'.has_from) =>
           /\ next_line' = next_line
           /\ (Leftover >= 1 /\ next_line = Len(statements) - Leftover) =>
                  /\ next_line' < Len(statements)
                  /\ src'[next_line' + 1].base = Len(statements) - Leftover
                  /\ \A j \in Len(statements) + 1 .. Len(statements') :
                         src'[j].base > src'[next_line' + 1].base
    /\ (pc = "loop" /\ first /\ pc' = "exec") => this_line' = next_line

Failing(st) ==
    {j \in 1 .. Len(st.expr_list) : Eval(st.expr_list[j], context).err # "none"}

\* the print statement st has sent the values of its expressions before the
\* j-th, each followed by a single space, and nothing else
SentBefore(st, sent, j) ==
    /\ Len(sent) = 2 * (j - 1)
    /\ \A i \in 1 .. j - 1 :
           /\ sent[2 * i - 1] = Eval(st.expr_list[i], context).v
           /\ sent[2 * i] = Text(<<" ">>)

\* the steps of C26: a print statement whose j-th expression is the first
\* to raise has sent the values of expressions 1 .. j-1 and j-1 single
\* spaces, in order, and no newline, when the error leaves it
C26_PartialStep ==
    (pc = "exec" /\ Current.k = "print" /\ Failing(Current) # {}) =>
        /\ raised' # NoExc
        /\ IsPrefix(output, output')
        /\ SentBefore(Current, Sent, MinOr(Failing(Current), 1))

\* C26: print is not atomic: when the evaluation of its j-th expression
\* raises, the values of the expressions before it and j-1 separators have
\* been sent, and no newline
C26_PartialPrint == [][C26_PartialStep]_vars

\* a print of two expressions has raised UndefinedVariableError at its second
\* expression, after the first value and one space were sent
C26_Witness ==
    /\ pc = "idle"
    /\ raised.kind = "UndefinedVariableError"
    /\ this_line >= 0
    /\ statements[this_line + 1] # None
    /\ statements[this_line + 1].k = "print"
    /\ Len(statements[this_line + 1].expr_list) = 2
    /\ Len(output) = 2
    /\ output[1].t = "num"
    /\ output[2] = Text(<<" ">>)

====
